---- MODULE Spec2Model ----
(***************************************************************************)
(* Lifecycle of a Rocket instance (core/lib/src/rocket.rs): the Build      *)
(* phase operations, ignite, the launch entry points, orbit and the        *)
(* graceful-shutdown drain of try_wait_shutdown.                           *)
(***************************************************************************)
EXTENDS Integers, Sequences, FiniteSets, TLC

VARIABLES
    rocket,        \* the instance: a record whose fields depend on its phase
    pc,            \* position of the caller / coordinator task
    entry,         \* the entry point in progress: ignite or a launch variant
    calls,         \* number of Build-phase calls made by the user so far
    secrets,       \* whether the build has the "secrets" feature (cfg)
    steps,         \* the steps of ignite() executed so far, in order
    stages,        \* the Stages created so far: stages[h] = handle h notified
    bound,         \* the listener's binding: "none", by the "entry" point
                   \* ("failed" if it failed), or by the "caller" beforehand
    listening,     \* shutdown.spawn_listener() has run
    clones,        \* Arc<Rocket<Orbit>> clones held besides the coordinator's
    slept,         \* the drain periods slept through so far, in order
    hooks,         \* progress of the hook tasks: liftoff and shutdown
    served,        \* number of connections accepted so far
    result         \* what the entry point returned to the caller

vars == <<rocket, pc, entry, calls, secrets, steps, stages, bound, listening,
          clones, slept, hooks, served, result>>

----------------------------------------------------------------------------
(* Bounds of the model. *)

\* Build-phase calls (mount, register, manage, attach, reconfigure) per run.
MaxCalls == 2

\* Connections the server accepts per run.
MaxConns == 2

----------------------------------------------------------------------------
(* Values. *)

\* Type identities of managed state.
Types == {"T1", "T2"}

\* The values managed: two of each type, so that a replacement would show.
Values == {"v1", "v2"}

\* No value managed.
NoVals == [t \in {} |-> "v1"]

\* Option<&T>
None == [tag |-> "None"]

Some(v) == [tag |-> "Some", value |-> v]

\* Configuration providers: what a Config extracted from them would hold.
\* secret is "none" (no key: the zero default), "generated" (a key that was
\* generated, not provided) or "provided".
Provider(valid, profile, secret) ==
    [valid |-> valid, profile |-> profile, secret |-> secret]

DEBUG_PROFILE == "debug"

Providers ==
    { Provider(TRUE, DEBUG_PROFILE, "none"),
      Provider(TRUE, DEBUG_PROFILE, "generated"),
      Provider(TRUE, "release", "none"),
      Provider(TRUE, "release", "provided"),
      Provider(FALSE, "release", "none") }

\* Config::figment(): the default provider.
DefaultProvider == Provider(TRUE, DEBUG_PROFILE, "none")

\* A URI as text: its tokens, "/" and "?" among segment names.
\* A dynamic parameter of a route URI.
Dynamic == { "<a>" }

\* An origin URI: the tokens of its path and its query, if any.
Origin(path, query) == [path |-> path, query |-> query]

\* Unmounted routes: a name (the method and handler), the route URI, and
\* the managed type its sentinel (a State<T> guard) requires, or "none".
RouteVals ==
    { [name |-> "index", uri |-> Origin(<< "/" >>, None), needs |-> "none"],
      [name |-> "guarded", uri |-> Origin(<< "/", "guarded" >>, None),
       needs |-> "T1"] }

CatcherVals == { [code |-> 404] }

\* Mount points, as written by the caller.
Bases == { << "/" >> }

\* Fairings: a type identity, whether it is a singleton, and what its
\* on_ignite callback does: "none" (not an ignite fairing), "ok", "abort",
\* "manage" (manages a T2) or "reconfigure" (to a release profile, no key).
Fairing(type, singleton, ignite) ==
    [type |-> type, singleton |-> singleton, on_ignite |-> ignite]

Shield == Fairing("Shield", TRUE, "none")

FairingVals ==
    { Fairing("AdHoc", FALSE, "abort"),
      Fairing("AdHoc", FALSE, "manage"),
      Fairing("AdHoc", FALSE, "reconfigure") }

----------------------------------------------------------------------------
(* The Build phase. *)

\* Figment::from(provider): a figment holding that provider alone.
FigmentFrom(provider) == << provider >>

\* Building::default()
BuildingDefault ==
    [ phase    |-> "Build",
      figment  |-> << >>,
      routes   |-> << >>,
      catchers |-> << >>,
      state    |-> [types |-> {}, vals |-> NoVals, frozen |-> FALSE],
      fairings |-> [all |-> << >>, failures |-> << >>] ]

\* reconfigure, had the provider been merged into the figment at hand.
reconfigure_m(r, provider) ==
    [r EXCEPT !.figment = r.figment \o FigmentFrom(provider)]

\* Rocket<Build>::reconfigure
reconfigure(r, provider) == [r EXCEPT !.figment = FigmentFrom(provider)]

\* The place of the first "?" of a text, or 0.
QueryAt(text) ==
    IF \E i \in DOMAIN text : text[i] = "?"
    THEN CHOOSE i \in DOMAIN text :
            text[i] = "?" /\ \A j \in 1 .. (i - 1) : text[j] # "?"
    ELSE 0

\* base.try_into(): the text as an origin URI, which starts with a slash,
\* has no empty segment and, not being a route URI, no dynamic parameter.
TryIntoOrigin(text) ==
    LET q == QueryAt(text)
        path == IF q = 0 THEN text ELSE SubSeq(text, 1, q - 1)
    IN  IF \/ path = << >>
           \/ path[1] # "/"
           \/ \E i \in DOMAIN text : text[i] \in Dynamic
           \/ \E i \in 1 .. (Len(path) - 1) : path[i] = "/" /\ path[i + 1] = "/"
           \/ \E i \in 1 .. (Len(path) - 1) : path[i] # "/" /\ path[i + 1] # "/"
        THEN [tag |-> "Err"]
        ELSE [tag |-> "Ok",
              origin |-> Origin(path,
                                IF q = 0 THEN None
                                ELSE Some(SubSeq(text, q + 1, Len(text))))]

\* LoadBase, had load kept the query of the base.
LoadBase_m(text) == TryIntoOrigin(text)

\* load(), before its loop: the base parsed, its query cleared.
LoadBase(text) ==
    LET base == TryIntoOrigin(text)
    IN  IF base.tag = "Ok" /\ base.origin.query # None
        THEN [base EXCEPT !.origin.query = None]
        ELSE base

\* Route::rebase / Catcher::rebase: the item scoped to the base.
Rebase(base, item) ==
    [x \in DOMAIN item \cup {"base"} |-> IF x = "base" THEN base ELSE item[x]]

\* A path without its trailing slash; the root path becomes empty.
NonTrailing(path) ==
    IF path[Len(path)] = "/" THEN SubSeq(path, 1, Len(path) - 1) ELSE path

\* The effective URI of a route URI under a base: the base with the
\* route's query for the route URI "/", else the route URI behind the base.
EffectiveUri(base, uri) ==
    IF uri.path = << "/" >>
    THEN Origin(base.path, uri.query)
    ELSE Origin(NonTrailing(base.path) \o uri.path, uri.query)

\* Route::rebase: the route scoped to the base, with its effective URI.
RouteRebase(base, route) ==
    [Rebase(base, route) EXCEPT !.uri = EffectiveUri(base, route.uri)]

\* The loop of Rocket<Build>::load: every item rebased, in order.
RECURSIVE RebaseAll(_, _)
RebaseAll(base, items) ==
    IF items = << >> THEN << >>
    ELSE << Rebase(base, Head(items)) >> \o RebaseAll(base, Tail(items))

\* RouteRebaseAll, had the base lost its trailing slash before the loop.
RECURSIVE RouteRebaseAll_m(_, _)
RouteRebaseAll_m(base, items) ==
    IF items = << >> THEN << >>
    ELSE << RouteRebase(Origin(IF Len(base.path) > 1
                               THEN NonTrailing(base.path) ELSE base.path,
                               base.query),
                        Head(items)) >>
            \o RouteRebaseAll_m(base, Tail(items))

RECURSIVE RouteRebaseAll(_, _)
RouteRebaseAll(base, items) ==
    IF items = << >> THEN << >>
    ELSE << RouteRebase(base, Head(items)) >>
            \o RouteRebaseAll(base, Tail(items))

\* The instance after it was moved into a call that dropped it.
Dropped == [phase |-> "Dropped"]

\* mount, had a route that is already mounted under some base been skipped.
mount_once(r, base, items) ==
    LET b == LoadBase(base)
        fresh == SelectSeq(items, LAMBDA x :
                    \A i \in DOMAIN r.routes : r.routes[i].name # x.name)
    IN  IF b.tag = "Err" THEN Dropped
        ELSE [r EXCEPT !.routes = r.routes \o RouteRebaseAll(b.origin, fresh)]

\* mount, had the route URI been written behind the base as it stands.
mount_m(r, base, items) ==
    LET b == LoadBase(base)
    IN  IF b.tag = "Err" THEN Dropped
        ELSE [r EXCEPT !.routes = r.routes \o
                [i \in DOMAIN items |->
                   [Rebase(b.origin, items[i]) EXCEPT
                      !.uri = Origin(b.origin.path \o items[i].uri.path,
                                     items[i].uri.query)]]]

\* Rocket<Build>::mount: load() panics on an invalid base, else pushes every
\* rebased route, in order.
mount(r, base, items) ==
    LET b == LoadBase(base)
    IN  IF b.tag = "Err" THEN Dropped
        ELSE [r EXCEPT !.routes = r.routes \o RouteRebaseAll(b.origin, items)]

\* register, had an invalid base been skipped and the instance returned.
register_m(r, base, items) ==
    LET b == LoadBase(base)
    IN  IF b.tag = "Err" THEN r
        ELSE [r EXCEPT !.catchers = r.catchers \o RebaseAll(b.origin, items)]

\* Rocket<Build>::register
register(r, base, items) ==
    LET b == LoadBase(base)
    IN  IF b.tag = "Err" THEN Dropped
        ELSE [r EXCEPT !.catchers = r.catchers \o RebaseAll(b.origin, items)]

\* Rocket<Build>::manage, when state.set() succeeds: the value is stored
\* under its type.
manage(r, type, value) ==
    [r EXCEPT !.state.types = r.state.types \cup {type},
              !.state.vals = [t \in DOMAIN r.state.vals \cup {type} |->
                                IF t = type THEN value ELSE r.state.vals[t]]]

\* state.set(): FALSE when a value of the type is already managed.
StateSet(r, type) == type \notin r.state.types

\* Fairings::add: a singleton replaces an attached fairing of its type,
\* which is removed; the new fairing goes to the end.
FairingsAdd(all, f) ==
    LET kept == SelectSeq(all, LAMBDA g : ~(f.singleton /\ g.type = f.type))
    IN  Append(kept, f)

\* attach, had a regular fairing been put before the attached ones.
attach_front(r, f) ==
    [r EXCEPT !.fairings.all =
        IF f.singleton THEN FairingsAdd(r.fairings.all, f)
        ELSE << f >> \o r.fairings.all]

\* attach, had a singleton taken the place of the attached fairing of its
\* type instead of going to the end.
attach_m(r, f) ==
    LET all == r.fairings.all
        dup == \E i \in DOMAIN all : all[i].type = f.type
    IN  [r EXCEPT !.fairings.all =
            IF f.singleton /\ dup
            THEN [i \in DOMAIN all |-> IF all[i].type = f.type THEN f ELSE all[i]]
            ELSE Append(all, f)]

\* Rocket<Build>::attach
attach(r, f) == [r EXCEPT !.fairings.all = FairingsAdd(r.fairings.all, f)]

\* custom, had it left the new instance as Building::default() made it.
custom_m(provider) == BuildingDefault

\* Rocket<Build>::custom
custom(provider) == attach(reconfigure(BuildingDefault, provider), Shield)

\* Rocket<Build>::build
build == custom(DefaultProvider)

----------------------------------------------------------------------------
(* Ignition. *)

Ok(r) == [tag |-> "Ok", rocket |-> r]
Err(kind, data) == [tag |-> "Err", kind |-> kind, data |-> data]

\* The first ignite fairing at or after position i, or Len + 1.
RECURSIVE NextIgnite(_, _)
NextIgnite(all, i) ==
    IF i > Len(all) \/ all[i].on_ignite # "none" THEN i
    ELSE NextIgnite(all, i + 1)

\* Fairings::handle_ignite is over: every ignite fairing ran, or one failed.
HandleIgniteDone(r, i) ==
    \/ NextIgnite(r.fairings.all, i) > Len(r.fairings.all)
    \/ r.fairings.failures # << >>

\* Fairing::on_ignite of fairing f on the instance being built.
OnIgnite(r, f) ==
    CASE f.on_ignite = "abort" ->
            [r EXCEPT !.fairings.failures = Append(r.fairings.failures, f)]
      [] f.on_ignite = "manage" -> manage(r, "T2", "v1")
      [] f.on_ignite = "reconfigure" ->
            reconfigure(r, Provider(TRUE, "release", "none"))
      [] OTHER -> r

\* Config::try_from(&figment): the typed configuration, or an error.
ConfigTryFrom(figment) ==
    LET p == figment[Len(figment)]
    IN  IF ~p.valid THEN [tag |-> "Err"]
        ELSE [tag |-> "Ok",
              config |-> [profile |-> p.profile,
                          secret_key |-> [provided |-> p.secret = "provided",
                                          zero |-> p.secret = "none"]]]

\* Router::finalize: the pairs of colliding routes and of colliding catchers.
Collisions(items) ==
    { <<i, j>> \in (DOMAIN items) \X (DOMAIN items) :
        i < j /\ items[i] = items[j] }

\* sentinel::query: the routes whose sentinel aborts, a State<T> guard
\* aborting when no T is managed.
SentinelAborts(r) ==
    { i \in DOMAIN r.router.routes :
        /\ r.router.routes[i].needs # "none"
        /\ r.router.routes[i].needs \notin r.state.types }

\* ignite(): query the sentinels, abort if requested.
IgniteSentinels(r, st) ==
    IF SentinelAborts(r) # {}
    THEN [steps |-> Append(st, "sentinels"),
          out |-> Err("SentinelAborts", SentinelAborts(r))]
    ELSE [steps |-> Append(st, "sentinels"), out |-> Ok(r)]

\* ignite(): freeze managed state and build the Igniting value.
IgniteFreeze(r, config, router, h, st) ==
    IgniteSentinels(
        [ phase    |-> "Ignite",
          shutdown |-> h,
          figment  |-> r.figment,
          fairings |-> r.fairings,
          state    |-> [r.state EXCEPT !.frozen = TRUE],
          router   |-> router,
          config   |-> config ],
        Append(st, "freeze"))

\* IgniteRouter, had the catchers not been added to the router.
IgniteRouter_nocatch(r, config, h, st) ==
    LET router == [routes |-> r.routes, catchers |-> << >>]
        rc == Collisions(router.routes)
        cc == Collisions(r.catchers)
    IN  IF rc # {} \/ cc # {}
        THEN [steps |-> Append(st, "router"),
              out |-> Err("Collisions", [routes |-> rc, catchers |-> cc])]
        ELSE IgniteFreeze(r, config, router, h, Append(st, "router"))

\* IgniteRouter, had managed state been frozen before the collision check.
IgniteRouter_m(r, config, h, st) ==
    LET router == [routes |-> r.routes, catchers |-> r.catchers]
        rc == Collisions(router.routes)
        cc == Collisions(router.catchers)
    IN  IF rc # {} \/ cc # {}
        THEN [steps |-> st \o << "freeze", "router" >>,
              out |-> Err("Collisions", [routes |-> rc, catchers |-> cc])]
        ELSE IgniteSentinels(
                 [ phase    |-> "Ignite",
                   shutdown |-> h,
                   figment  |-> r.figment,
                   fairings |-> r.fairings,
                   state    |-> [r.state EXCEPT !.frozen = TRUE],
                   router   |-> router,
                   config   |-> config ],
                 st \o << "freeze", "router" >>)

\* ignite(): initialize the router; check for collisions.
IgniteRouter(r, config, h, st) ==
    LET router == [routes |-> r.routes, catchers |-> r.catchers]
        rc == Collisions(router.routes)
        cc == Collisions(router.catchers)
    IN  IF rc # {} \/ cc # {}
        THEN [steps |-> Append(st, "router"),
              out |-> Err("Collisions", [routes |-> rc, catchers |-> cc])]
        ELSE IgniteFreeze(r, config, router, h, Append(st, "router"))

\* IgniteSecret, had a key been generated whatever the profile.
IgniteSecret_m(r, config, sec, gen, h, st) ==
    IF sec /\ ~config.secret_key.provided
    THEN IgniteRouter(r,
             IF config.secret_key.zero
             THEN [config EXCEPT !.secret_key.zero = ~gen]
             ELSE config,
             h, Append(st, "secret"))
    ELSE IF sec THEN IgniteRouter(r, config, h, Append(st, "secret"))
         ELSE IgniteRouter(r, config, h, st)

\* ignite(): check for safely configured secrets (cfg feature "secrets").
\* gen: whether SecretKey::generate() succeeds.
IgniteSecret(r, config, sec, gen, h, st) ==
    IF sec /\ ~config.secret_key.provided
    THEN IF config.profile # DEBUG_PROFILE
         THEN [steps |-> Append(st, "secret"),
               out |-> Err("InsecureSecretKey", config.profile)]
         ELSE IgniteRouter(r,
                  IF config.secret_key.zero
                  THEN [config EXCEPT !.secret_key.zero = ~gen]
                  ELSE config,
                  h, Append(st, "secret"))
    ELSE IF sec THEN IgniteRouter(r, config, h, Append(st, "secret"))
         ELSE IgniteRouter(r, config, h, st)

\* ignite(): extract the configuration.
IgniteConfig(r, sec, gen, h, st) ==
    LET c == ConfigTryFrom(r.figment)
    IN  IF c.tag = "Err"
        THEN [steps |-> Append(st, "config"), out |-> Err("Config", "invalid")]
        ELSE IgniteSecret(r, c.config, sec, gen, h, Append(st, "config"))

\* IgniteAudit, had the result of fairings.audit() been ignored.
IgniteAudit_m(r, sec, gen, h, st) ==
    IgniteConfig(r, sec, gen, h, Append(st, "audit"))

\* ignite() after handle_ignite: fairings.audit(), then the rest.
IgniteAudit(r, sec, gen, h, st) ==
    IF r.fairings.failures # << >>
    THEN [steps |-> Append(st, "audit"),
          out |-> Err("FailedFairings", r.fairings.failures)]
    ELSE IgniteConfig(r, sec, gen, h, Append(st, "audit"))

----------------------------------------------------------------------------
(* Orbit. *)

\* into_orbit, had it built the Orbiting value with a fresh managed state.
into_orbit_m(r, endpoints) ==
    [ phase     |-> "Orbit",
      endpoints |-> endpoints,
      router    |-> r.router,
      fairings  |-> r.fairings,
      figment   |-> r.figment,
      config    |-> r.config,
      state     |-> [types |-> {}, vals |-> NoVals, frozen |-> TRUE],
      shutdown  |-> r.shutdown ]

\* Rocket<Ignite>::into_orbit
into_orbit(r, endpoints) ==
    [ phase     |-> "Orbit",
      endpoints |-> endpoints,
      router    |-> r.router,
      fairings  |-> r.fairings,
      figment   |-> r.figment,
      config    |-> r.config,
      state     |-> r.state,
      shutdown  |-> r.shutdown ]

\* deorbit, had it given the returned instance a fresh shutdown handle.
deorbit_fresh(r) ==
    [ phase    |-> "Ignite",
      router   |-> r.router,
      fairings |-> r.fairings,
      figment  |-> r.figment,
      config   |-> r.config,
      state    |-> r.state,
      shutdown |-> r.shutdown + 1 ]

\* deorbit, had it extracted the configuration from the figment again
\* instead of moving the one ignite() derived.
deorbit_m(r) ==
    [ phase    |-> "Ignite",
      router   |-> r.router,
      fairings |-> r.fairings,
      figment  |-> r.figment,
      config   |-> ConfigTryFrom(r.figment).config,
      state    |-> r.state,
      shutdown |-> r.shutdown ]

\* Rocket<Orbit>::deorbit
deorbit(r) ==
    [ phase    |-> "Ignite",
      router   |-> r.router,
      fairings |-> r.fairings,
      figment  |-> r.figment,
      config   |-> r.config,
      state    |-> r.state,
      shutdown |-> r.shutdown ]

\* The periods, had mercy come before the second pause.
Schedule_m == << "wait", "grace", "mercy", "wait", "wait4" >>

\* The periods of try_wait_shutdown: wait, grace, wait, mercy, wait * 4.
Schedule == << "wait", "grace", "wait", "mercy", "wait4" >>

\* Arc::strong_count: the coordinator's reference and every clone.
StrongCount(c) == 1 + c.liftoff + c.hooks + c.conns

\* try_unwrap, had it only looked at the connection tasks.
TryUnwrap_m(c) == c.conns = 0

\* Arc::try_unwrap: the inner value only if this is the sole reference.
TryUnwrap(c) == StrongCount(c) = 1

\* The break condition, had it only looked at the connection tasks.
DrainBreak_m(c) == c.conns = 0

\* The break condition at the head of the drain loop.
DrainBreak(c) == StrongCount(c) = 1

----------------------------------------------------------------------------
(* The state machine. *)

NoResult == [tag |-> "none"]

\* The vectors passed to mount and register: one item, or two.
Items(S) == { << x >> : x \in S } \cup { << x, y >> : x \in S, y \in S }

Init ==
    /\ rocket = build
    /\ pc = "build"
    /\ entry = "none"
    /\ calls = 0
    /\ secrets \in BOOLEAN
    /\ steps = << >>
    /\ stages = << >>
    /\ bound = "none"
    /\ listening = FALSE
    /\ clones = [liftoff |-> 0, hooks |-> 0, conns |-> 0]
    /\ slept = << >>
    /\ hooks = [ignite |-> 0, liftoff |-> "idle", shutdown |-> "idle"]
    /\ served = 0
    /\ result = NoResult

\* A Build-phase method is callable: the caller holds a Rocket<Build>.
Building ==
    /\ pc = "build"
    /\ rocket.phase = "Build"
    /\ calls < MaxCalls

\* Rocket<Build>::mount of routes at a base: a panic, the instance lost,
\* when the base is no valid origin URI.
MountStep(base, items) ==
    /\ rocket' = mount(rocket, base, items)
    /\ pc' = IF rocket' = Dropped THEN "panicked" ELSE pc
    /\ calls' = calls + 1
    /\ UNCHANGED <<entry, secrets, steps, stages, bound, listening,
                   clones, slept, hooks, served, result>>

Mount ==
    /\ Building
    /\ \E base \in Bases, items \in Items(RouteVals) : MountStep(base, items)

\* Rocket<Build>::register of catchers at a base.
RegisterStep(base, items) ==
    /\ rocket' = register(rocket, base, items)
    /\ pc' = IF rocket' = Dropped THEN "panicked" ELSE pc
    /\ calls' = calls + 1
    /\ UNCHANGED <<entry, secrets, steps, stages, bound, listening,
                   clones, slept, hooks, served, result>>

Register ==
    /\ Building
    /\ \E base \in Bases, items \in Items(CatcherVals) :
          RegisterStep(base, items)

\* ManageStep, had manage stored the value over the one already managed
\* instead of panicking.
ManageStep_m(type, value) ==
    /\ rocket' = manage(rocket, type, value)
    /\ pc' = pc
    /\ calls' = calls + 1
    /\ UNCHANGED <<entry, secrets, steps, stages, bound, listening,
                   clones, slept, hooks, served, result>>

\* Rocket<Build>::manage of one value: a panic, the instance lost, when a
\* value of the type is already managed.
ManageStep(type, value) ==
    /\ IF StateSet(rocket, type)
       THEN rocket' = manage(rocket, type, value) /\ pc' = pc
       ELSE rocket' = Dropped /\ pc' = "panicked"
    /\ calls' = calls + 1
    /\ UNCHANGED <<entry, secrets, steps, stages, bound, listening,
                   clones, slept, hooks, served, result>>

\* manage is called with a value of some type.
Manage ==
    /\ Building
    /\ \E type \in Types : ManageStep(type, "v1")

\* AttachStep, had attach run the fairing's ignite callback at once.
AttachStep_m(f) ==
    /\ rocket' = IF f.on_ignite = "manage" /\ ~StateSet(rocket, "T2")
                 THEN attach(rocket, f)
                 ELSE OnIgnite(attach(rocket, f), f)
    /\ calls' = calls + 1
    /\ UNCHANGED <<pc, entry, secrets, steps, stages, bound, listening,
                   clones, slept, hooks, served, result>>

\* Rocket<Build>::attach of one fairing.
AttachStep(f) ==
    /\ rocket' = attach(rocket, f)
    /\ calls' = calls + 1
    /\ UNCHANGED <<pc, entry, secrets, steps, stages, bound, listening,
                   clones, slept, hooks, served, result>>

Attach ==
    /\ Building
    /\ \E f \in FairingVals \cup {Shield} : AttachStep(f)

\* Rocket<Build>::reconfigure with a provider: it returns self.
ReconfigureStep(p) ==
    /\ rocket' = reconfigure(rocket, p)
    /\ calls' = calls + 1
    /\ UNCHANGED <<pc, entry, secrets, steps, stages, bound, listening,
                   clones, slept, hooks, served, result>>

Reconfigure ==
    /\ Building
    /\ \E p \in Providers : ReconfigureStep(p)

\* Where an entry point goes once it holds a Rocket<Ignite>.
AfterIgnite(e) ==
    CASE e = "ignite" -> "ignited"
      [] e = "launch_with" -> "bind"
      [] e = "local_launch" -> "local"
      [] OTHER -> "launch"

\* IntoIgnite, had into_ignite run the ignite fairings of a Rocket<Ignite>
\* once more before passing it through.
IntoIgnite_m(e) ==
    IF rocket.phase = "Build"
    THEN /\ pc' = "ignite_hooks"
         /\ steps' = << "hooks" >>
         /\ hooks' = [hooks EXCEPT !.ignite = 1]
    ELSE /\ pc' = AfterIgnite(e)
         /\ steps' = Append(steps, "hooks")
         /\ hooks' = [hooks EXCEPT !.ignite = 1]

\* Rocket::into_ignite as the first step of entry point e: a Build instance
\* starts ignite(), an Ignite instance is passed through.
IntoIgnite(e) ==
    IF rocket.phase = "Build"
    THEN /\ pc' = "ignite_hooks"
         /\ steps' = << "hooks" >>
         /\ hooks' = [hooks EXCEPT !.ignite = 1]
    ELSE /\ pc' = AfterIgnite(e)
         /\ UNCHANGED <<steps, hooks>>

\* The caller holds an instance it can pass to an entry point.
Callable ==
    \/ pc = "build" /\ rocket.phase = "Build"
    \/ pc = "ignited" /\ rocket.phase = "Ignite"

\* Rocket<Build>::ignite is called.
CallIgnite ==
    /\ pc = "build" /\ rocket.phase = "Build"
    /\ entry' = "ignite"
    /\ IntoIgnite("ignite")
    /\ UNCHANGED <<rocket, calls, secrets, stages, bound, listening,
                   clones, slept, served, result>>

\* Rocket::launch / launch_with is called: into_ignite comes first.
CallLaunchWith ==
    /\ Callable
    /\ entry' = "launch_with"
    /\ result' = NoResult
    /\ IntoIgnite("launch_with")
    /\ UNCHANGED <<rocket, calls, secrets, stages, bound, listening,
                   clones, slept, served>>

\* Rocket::launch_on is called with a listener the caller has bound.
CallLaunchOn ==
    /\ Callable
    /\ entry' = "launch_on"
    /\ result' = NoResult
    /\ bound' = "caller"
    /\ IntoIgnite("launch_on")
    /\ UNCHANGED <<rocket, calls, secrets, stages, listening,
                   clones, slept, served>>

\* Rocket::try_launch_on is called: the listener future is awaited first.
CallTryLaunchOn ==
    /\ Callable
    /\ entry' = "try_launch_on"
    /\ result' = NoResult
    /\ pc' = "listener"
    /\ UNCHANGED <<rocket, calls, secrets, steps, stages, bound, listening,
                   clones, slept, hooks, served>>

\* TryLaunchOnListener, had the Bind error named an endpoint.
TryLaunchOnListener_m ==
    /\ pc = "listener"
    /\ \E ok \in BOOLEAN :
          IF ok
          THEN /\ bound' = "entry"
               /\ IntoIgnite("try_launch_on")
               /\ UNCHANGED <<rocket, result>>
          ELSE /\ bound' = "failed"
               /\ result' = Err("Bind", [endpoint |-> "addr", error |-> "io"])
               /\ rocket' = Dropped
               /\ pc' = "done"
               /\ UNCHANGED <<steps, hooks>>
    /\ UNCHANGED <<entry, calls, secrets, stages, listening, clones, slept,
                   served>>

\* try_launch_on: the listener future resolves; an error is a Bind error
\* with no endpoint, otherwise into_ignite follows.
TryLaunchOnListener ==
    /\ pc = "listener"
    /\ \E ok \in BOOLEAN :
          IF ok
          THEN /\ bound' = "entry"
               /\ IntoIgnite("try_launch_on")
               /\ UNCHANGED <<rocket, result>>
          ELSE /\ bound' = "failed"
               /\ result' = Err("Bind", [endpoint |-> "none", error |-> "io"])
               /\ rocket' = Dropped
               /\ pc' = "done"
               /\ UNCHANGED <<steps, hooks>>
    /\ UNCHANGED <<entry, calls, secrets, stages, listening, clones, slept,
                   served>>

\* Fairings::handle_ignite: the next ignite fairing runs on the instance.
HandleIgnite ==
    /\ pc = "ignite_hooks"
    /\ ~HandleIgniteDone(rocket, hooks.ignite)
    /\ LET i == NextIgnite(rocket.fairings.all, hooks.ignite)
           f == rocket.fairings.all[i]
       IN  /\ hooks' = [hooks EXCEPT !.ignite = i + 1]
           /\ IF f.on_ignite = "manage" /\ ~StateSet(rocket, "T2")
              THEN rocket' = Dropped /\ pc' = "panicked"
              ELSE rocket' = OnIgnite(rocket, f) /\ pc' = pc
    /\ UNCHANGED <<entry, calls, secrets, steps, stages, bound, listening,
                   clones, slept, served, result>>

\* ignite() from the return of handle_ignite to its own return.
Ignite ==
    /\ pc = "ignite_hooks"
    /\ HandleIgniteDone(rocket, hooks.ignite)
    /\ \E gen \in BOOLEAN :
         LET o == IgniteAudit(rocket, secrets, gen, Len(stages) + 1, steps)
         IN  /\ steps' = o.steps
             /\ IF o.out.tag = "Ok"
                THEN /\ rocket' = o.out.rocket
                     /\ stages' = Append(stages, FALSE)
                     /\ pc' = AfterIgnite(entry)
                     /\ result' = IF entry = "ignite"
                                   THEN [tag |-> "Ok", value |-> "Ignite"]
                                   ELSE result
                ELSE /\ rocket' = Dropped
                     /\ stages' = stages
                     /\ pc' = "done"
                     /\ result' = o.out
    /\ UNCHANGED <<entry, calls, secrets, bound, listening, clones, slept,
                   hooks, served>>

\* Bind, had launch_with logged the bind error and launched all the same.
Bind_m ==
    /\ pc = "bind"
    /\ \E ok \in BOOLEAN, endpoint \in {"none", "addr"} :
          /\ bound' = IF ok THEN "entry" ELSE "failed"
          /\ result' = IF ok THEN result
                       ELSE Err("Bind", [endpoint |-> endpoint, error |-> "io"])
          /\ rocket' = rocket
          /\ pc' = "launch"
    /\ UNCHANGED <<entry, calls, secrets, steps, stages, listening, clones,
                   slept, hooks, served>>

\* launch_with: B::bind_endpoint and B::bind.
Bind ==
    /\ pc = "bind"
    /\ \E ok \in BOOLEAN, endpoint \in {"none", "addr"} :
          IF ok
          THEN /\ bound' = "entry"
               /\ pc' = "launch"
               /\ UNCHANGED <<rocket, result>>
          ELSE /\ bound' = "failed"
               /\ result' = Err("Bind", [endpoint |-> endpoint, error |-> "io"])
               /\ rocket' = Dropped
               /\ pc' = "done"
    /\ UNCHANGED <<entry, calls, secrets, steps, stages, listening, clones,
                   slept, hooks, served>>

\* Launch, had the instance gone into orbit before the listener told its
\* endpoint: with no endpoint.
Launch_unbound ==
    /\ pc = "launch"
    /\ rocket' = into_orbit(rocket, << >>)
    /\ listening' = TRUE
    /\ clones' = [clones EXCEPT !.liftoff = 1]
    /\ hooks' = [hooks EXCEPT !.liftoff = "running"]
    /\ pc' = "liftoff"
    /\ UNCHANGED <<entry, calls, secrets, steps, stages, bound, slept,
                   served, result>>

\* Launch, had the instance gone into orbit with its shutdown armed anew: a
\* notification made before the launch is forgotten.
Launch_rearm ==
    /\ pc = "launch"
    /\ rocket' = into_orbit(rocket, << "endpoint" >>)
    /\ stages' = [stages EXCEPT ![rocket.shutdown] = FALSE]
    /\ listening' = TRUE
    /\ clones' = [clones EXCEPT !.liftoff = 1]
    /\ hooks' = [hooks EXCEPT !.liftoff = "running"]
    /\ pc' = "liftoff"
    /\ UNCHANGED <<entry, calls, secrets, steps, bound, slept, served, result>>

\* Launch, had _launch spawned the signal listener only after the liftoff
\* task was joined: a signal caught during liftoff has nowhere to go.
Launch_m ==
    /\ pc = "launch"
    /\ rocket' = into_orbit(rocket, << "endpoint" >>)
    /\ listening' = FALSE
    /\ clones' = [clones EXCEPT !.liftoff = 1]
    /\ hooks' = [hooks EXCEPT !.liftoff = "running"]
    /\ pc' = "liftoff"
    /\ UNCHANGED <<entry, calls, secrets, steps, stages, bound, slept,
                   served, result>>

\* _launch: the instance goes into orbit behind an Arc, the signal listener
\* is spawned, and the liftoff task is spawned with a clone of the Arc.
Launch ==
    /\ pc = "launch"
    /\ rocket' = into_orbit(rocket, << "endpoint" >>)
    /\ listening' = TRUE
    /\ clones' = [clones EXCEPT !.liftoff = 1]
    /\ hooks' = [hooks EXCEPT !.liftoff = "running"]
    /\ pc' = "liftoff"
    /\ UNCHANGED <<entry, calls, secrets, steps, stages, bound, slept,
                   served, result>>

\* Liftoff, had _launch spawned the liftoff task without awaiting its
\* JoinHandle: the server goes on to serve while the fairings run.
Liftoff_m ==
    /\ pc = "liftoff"
    /\ pc' = "serving"
    /\ UNCHANGED <<rocket, entry, calls, secrets, steps, stages, bound,
                   listening, clones, slept, hooks, served, result>>

\* liftoff(): rocket.endpoints[0], the endpoint it logs; None where the
\* index would be out of bounds.
LiftoffEndpoint(r) ==
    IF r.endpoints = << >> THEN None ELSE Some(r.endpoints[1])

\* The liftoff task ends and drops its clone; the coordinator resumes: on a
\* JoinError (a fairing panicked, or the access to the first endpoint did)
\* it goes to try_wait_shutdown, otherwise the server serves.
Liftoff ==
    /\ pc = "liftoff"
    /\ \E fault \in BOOLEAN :
          /\ LiftoffEndpoint(rocket) = None => fault
          /\ hooks' = [hooks EXCEPT !.liftoff = IF fault THEN "fault" ELSE "done"]
          /\ pc' = IF fault THEN "shutdown" ELSE "serving"
    /\ clones' = [clones EXCEPT !.liftoff = 0]
    /\ UNCHANGED <<rocket, entry, calls, secrets, steps, stages, bound,
                   listening, slept, served, result>>

\* The server accepts a connection: its task holds a clone of the Arc.
Accept ==
    /\ pc = "serving"
    /\ served < MaxConns
    /\ served' = served + 1
    /\ clones' = [clones EXCEPT !.conns = @ + 1]
    /\ UNCHANGED <<rocket, pc, entry, calls, secrets, steps, stages, bound,
                   listening, slept, hooks, result>>

\* A connection task ends and drops its clone.
Finish ==
    /\ clones.conns > 0
    /\ clones' = [clones EXCEPT !.conns = @ - 1]
    /\ UNCHANGED <<rocket, pc, entry, calls, secrets, steps, stages, bound,
                   listening, slept, hooks, served, result>>

\* shutdown, had it returned a Shutdown of its own instead of a clone of
\* the instance's: notifying it reaches no stage of the instance.
shutdown_m(r) == 0

\* Rocket<Ignite>::shutdown and Rocket<Orbit>::shutdown: a clone of the
\* instance's handle, every clone denoting the one shutdown of the instance.
shutdown(r) == r.shutdown

\* Shutdown::notify on a handle of the instance, or a signal caught by the
\* spawned listener.
Notify ==
    /\ pc \notin {"done", "panicked"}
    /\ rocket.phase \in {"Ignite", "Orbit"}
    /\ \E by \in {"handle", "signal"} : by = "signal" => listening
    /\ stages' = [stages EXCEPT ![shutdown(rocket)] = TRUE]
    /\ UNCHANGED <<rocket, pc, entry, calls, secrets, steps, bound,
                   listening, clones, slept, hooks, served, result>>

\* The server observes the shutdown and returns the Arc to _launch.
ServeExit ==
    /\ pc = "serving"
    /\ stages[rocket.shutdown]
    /\ pc' = "shutdown"
    /\ UNCHANGED <<rocket, entry, calls, secrets, steps, stages, bound,
                   listening, clones, slept, hooks, served, result>>

\* TryWaitShutdown, had the task of the shutdown fairings borrowed the
\* instance instead of holding a clone of the Arc.
TryWaitShutdown_noclone ==
    /\ pc = "shutdown"
    /\ hooks' = [hooks EXCEPT !.shutdown = "running"]
    /\ pc' = "drain"
    /\ UNCHANGED <<rocket, entry, calls, secrets, steps, stages, bound,
                   listening, clones, slept, served, result>>

\* TryWaitShutdown, had the shutdown fairings been spawned after the first
\* period instead of before the loop.
TryWaitShutdown_m ==
    /\ pc = "shutdown"
    /\ pc' = "sleeping"
    /\ UNCHANGED <<rocket, entry, calls, secrets, steps, stages, bound,
                   listening, clones, slept, hooks, served, result>>

\* try_wait_shutdown: the shutdown fairings are spawned with a clone.
TryWaitShutdown ==
    /\ pc = "shutdown"
    /\ clones' = [clones EXCEPT !.hooks = 1]
    /\ hooks' = [hooks EXCEPT !.shutdown = "running"]
    /\ pc' = "drain"
    /\ UNCHANGED <<rocket, entry, calls, secrets, steps, stages, bound,
                   listening, slept, served, result>>

\* The task running the shutdown fairings ends and drops its clone.
HandleShutdown ==
    /\ hooks.shutdown = "running"
    /\ hooks' = [hooks EXCEPT !.shutdown = "done"]
    /\ clones' = [clones EXCEPT !.hooks = 0]
    /\ UNCHANGED <<rocket, pc, entry, calls, secrets, steps, stages, bound,
                   listening, slept, served, result>>

\* try_wait_shutdown: the head of the loop, before a period is slept.
DrainCheck ==
    /\ pc = "drain"
    /\ pc' = IF DrainBreak(clones) THEN "unwrap" ELSE "sleeping"
    /\ UNCHANGED <<rocket, entry, calls, secrets, steps, stages, bound,
                   listening, clones, slept, hooks, served, result>>

\* try_wait_shutdown: the sleep of the current period is over.
DrainWake ==
    /\ pc = "sleeping"
    /\ slept' = Append(slept, Schedule[Len(slept) + 1])
    /\ pc' = IF Len(slept') = Len(Schedule) THEN "unwrap" ELSE "drain"
    /\ UNCHANGED <<rocket, entry, calls, secrets, steps, stages, bound,
                   listening, clones, hooks, served, result>>

\* What try_wait_shutdown returns after Arc::try_unwrap.
Drained(c) ==
    IF TryUnwrap(c) THEN [tag |-> "Ok", value |-> "Ignite"]
    ELSE [tag |-> "Err", value |-> "Arc"]

\* Launched, had _launch dropped the JoinError and returned as after a
\* shutdown of the server.
Launched_m(d, liftoff) ==
    IF d.tag = "Ok" THEN d ELSE Err("Shutdown", d.value)

\* What _launch returns, given what try_wait_shutdown returned: after a
\* faulted liftoff, ErrorKind::Liftoff(drained, JoinError).
Launched(d, liftoff) ==
    IF liftoff = "fault"
    THEN [tag |-> "Err", kind |-> "Liftoff", data |-> d, fault |-> "JoinError"]
    ELSE IF d.tag = "Ok" THEN d
    ELSE Err("Shutdown", d.value)

\* Unwrap, had try_wait_shutdown unwrapped with expect(): a panic when
\* references are outstanding.
Unwrap_m ==
    /\ pc = "unwrap"
    /\ IF TryUnwrap(clones)
       THEN /\ rocket' = deorbit(rocket)
            /\ result' = Launched(Drained(clones), hooks.liftoff)
            /\ pc' = "done"
       ELSE /\ rocket' = rocket
            /\ result' = result
            /\ pc' = "panicked"
    /\ UNCHANGED <<entry, calls, secrets, steps, stages, bound, listening,
                   clones, slept, hooks, served>>

\* try_wait_shutdown: Arc::try_unwrap, and the return of _launch.
Unwrap ==
    /\ pc = "unwrap"
    /\ rocket' = IF TryUnwrap(clones) THEN deorbit(rocket) ELSE rocket
    /\ result' = Launched(Drained(clones), hooks.liftoff)
    /\ pc' = "done"
    /\ UNCHANGED <<entry, calls, secrets, steps, stages, bound, listening,
                   clones, slept, hooks, served>>

Next ==
    \/ Mount \/ Register \/ Manage \/ Attach \/ Reconfigure
    \/ CallIgnite \/ CallLaunchWith \/ CallLaunchOn \/ CallTryLaunchOn
    \/ TryLaunchOnListener \/ HandleIgnite \/ Ignite \/ Bind
    \/ Launch \/ Liftoff \/ Accept \/ Finish \/ Notify \/ ServeExit
    \/ TryWaitShutdown \/ HandleShutdown \/ DrainCheck \/ DrainWake
    \/ Unwrap

Spec == Init /\ [][Next]_vars

\* The coordinator task is scheduled and its timers fire; the background
\* tasks holding clones may never end.
FairSpec ==
    Spec /\ WF_vars(DrainCheck) /\ WF_vars(DrainWake) /\ WF_vars(Unwrap)

\* The coordinator of launch is scheduled as well: _launch goes into orbit
\* once it holds the listener, the server returns once it observes the
\* shutdown, and _launch goes on to try_wait_shutdown. Fairings, bindings
\* and connection tasks may take forever.
LaunchFairSpec ==
    /\ FairSpec
    /\ WF_vars(Launch) /\ WF_vars(ServeExit) /\ WF_vars(TryWaitShutdown)

\* Rocket::local_launch is called with an endpoint: into_ignite comes first.
CallLocalLaunch ==
    /\ Callable
    /\ entry' = "local_launch"
    /\ result' = NoResult
    /\ IntoIgnite("local_launch")
    /\ UNCHANGED <<rocket, calls, secrets, stages, bound, listening,
                   clones, slept, served>>

\* _local_launch: the instance goes into orbit with the one endpoint and
\* liftoff is awaited on it, no task spawned.
LocalLaunch ==
    /\ pc = "local"
    /\ \E e \in {"endpoint", "local"} : rocket' = into_orbit(rocket, << e >>)
    /\ hooks' = [hooks EXCEPT !.liftoff = "running"]
    /\ pc' = "local_liftoff"
    /\ UNCHANGED <<entry, calls, secrets, steps, stages, bound, listening,
                   clones, slept, served, result>>

\* _local_launch: liftoff returns and the Rocket<Orbit> is returned; a panic
\* in liftoff, of a fairing or of the access to the first endpoint, unwinds
\* through the caller.
LocalLiftoff ==
    /\ pc = "local_liftoff"
    /\ \E fault \in BOOLEAN :
          /\ LiftoffEndpoint(rocket) = None => fault
          /\ IF fault
             THEN /\ hooks' = [hooks EXCEPT !.liftoff = "fault"]
                  /\ rocket' = Dropped
                  /\ pc' = "panicked"
                  /\ result' = result
             ELSE /\ hooks' = [hooks EXCEPT !.liftoff = "done"]
                  /\ rocket' = rocket
                  /\ pc' = "done"
                  /\ result' = [tag |-> "Ok", value |-> "Orbit"]
    /\ UNCHANGED <<entry, calls, secrets, steps, stages, bound, listening,
                   clones, slept, served>>

\* Every way into orbit: the launch entry points and local_launch.
OrbitNext == Next \/ CallLocalLaunch \/ LocalLaunch \/ LocalLiftoff

OrbitSpec == Init /\ [][OrbitNext]_vars

----------------------------------------------------------------------------
(* The Build phase on its own: longer chains of calls, with values and
   fairings that tell a replacement from an addition. *)

\* The number of Build-phase calls in a chain.
MaxBuild == 3

\* Singleton fairings of one type that differ in what they hold, and a
\* fairing that is no singleton.
MySingletonFairing(held) ==
    [type |-> "MySingletonFairing", singleton |-> TRUE, on_ignite |-> "none",
     held |-> held]

MyFairing(held) ==
    [type |-> "MyFairing", singleton |-> FALSE, on_ignite |-> "none",
     held |-> held]

AttachVals ==
    {MySingletonFairing("first"), MySingletonFairing("second"),
     MyFairing("some state"), Shield}

\* The caller holds a Rocket<Build> and goes on building.
Assembling ==
    /\ pc = "build"
    /\ rocket.phase = "Build"
    /\ calls < MaxBuild

\* manage is called with any value of any type.
ManageAny ==
    /\ Assembling
    /\ \E type \in Types, value \in Values : ManageStep(type, value)

\* attach is called with a singleton or a regular fairing.
AttachAny ==
    /\ Assembling
    /\ \E f \in AttachVals : AttachStep(f)

BuildNext == ManageAny \/ AttachAny

BuildSpec == Init /\ [][BuildNext]_vars

----------------------------------------------------------------------------
(* Fairings of a type: chains of attach calls with regular fairings that
   differ in what they hold, read with fairing and fairings and changed
   through fairings_mut. *)

\* The number of attach calls and changes in a chain.
MaxAttach == 3

\* Rocket::fairings::<F>(): the attached fairings of the type, in the order
\* of the list.
fairings(r, type) == SelectSeq(r.fairings.all, LAMBDA g : g.type = type)

\* Rocket::fairing::<F>(): the first of them, if any.
fairing(r, type) ==
    IF fairings(r, type) = << >> THEN None ELSE Some(Head(fairings(r, type)))

\* The place in the list of the k-th fairing of the type.
PlaceOf(all, type, k) ==
    CHOOSE i \in DOMAIN all :
       /\ all[i].type = type
       /\ Cardinality({ j \in 1 .. i : all[j].type = type }) = k

\* Rocket::fairings_mut::<F>(), the caller assigning to what the k-th
\* reference holds.
fairings_mut(r, type, k, held) ==
    [r EXCEPT !.fairings.all[PlaceOf(r.fairings.all, type, k)].held = held]

\* The fairings attached: two regular ones of one type, two singletons of
\* another.
MineVals ==
    { MyFairing("some state"), MyFairing("other state"),
      MySingletonFairing("first"), MySingletonFairing("second") }

\* The caller holds a Rocket<Build> and goes on attaching.
Attaching ==
    /\ pc = "build"
    /\ rocket.phase = "Build"
    /\ calls < MaxAttach

AttachMine ==
    /\ Attaching
    /\ \E f \in MineVals : AttachStep(f)

\* The caller changes what a fairing holds through fairings_mut.
FairingsMutStep(type, k, held) ==
    /\ rocket' = fairings_mut(rocket, type, k, held)
    /\ calls' = calls + 1
    /\ UNCHANGED <<pc, entry, secrets, steps, stages, bound, listening,
                   clones, slept, hooks, served, result>>

FairingsMut ==
    /\ Attaching
    /\ \E k \in 1 .. Len(fairings(rocket, "MyFairing")) :
          FairingsMutStep("MyFairing", k, "modified state")

FairingNext == AttachMine \/ FairingsMut

FairingSpec == Init /\ [][FairingNext]_vars

----------------------------------------------------------------------------
(* Mount points and route URIs: the bases and routes of the table in the
   documentation of mount, and bases that are no valid origin URI. *)

\* The number of mount and register calls in a chain.
MaxMounts == 2

\* Bases as written: those of the table, one more with a query, one with
\* no leading slash, one with a dynamic parameter, one with an empty segment.
BaseTexts ==
    { << "/" >>,
      << "/", "foo" >>,
      << "/", "foo", "/" >>,
      << "/", "foo", "/", "bar" >>,
      << "/", "foo", "/", "bar", "/" >>,
      << "/", "foo", "/", "?", "bar" >>,
      << "/", "foo", "?", "x" >>,
      << "foo" >>,
      << "/", "<a>" >>,
      << "/", "/", "foo" >> }

\* Route URIs: those of the table, and one with a dynamic parameter.
RouteUris ==
    { Origin(<< "/" >>, None),
      Origin(<< "/" >>, Some(<< "bar" >>)),
      Origin(<< "/", "foo" >>, None),
      Origin(<< "/", "foo", "/" >>, None),
      Origin(<< "/", "bar" >>, None),
      Origin(<< "/", "bar", "/" >>, None),
      Origin(<< "/", "baz" >>, None),
      Origin(<< "/", "baz", "/" >>, None),
      Origin(<< "/", "<a>" >>, None) }

\* A route with the given URI.
RouteAt(uri) == [name |-> "route", uri |-> uri, needs |-> "none"]

\* The caller holds a Rocket<Build> and goes on mounting.
Mounting ==
    /\ pc = "build"
    /\ rocket.phase = "Build"
    /\ calls < MaxMounts

\* mount is called with a route at a base.
MountAt ==
    /\ Mounting
    /\ \E base \in BaseTexts, uri \in RouteUris :
          MountStep(base, << RouteAt(uri) >>)

\* register is called with a catcher at a base.
RegisterAt ==
    /\ Mounting
    /\ \E base \in BaseTexts, c \in CatcherVals : RegisterStep(base, << c >>)

MountNext == MountAt \/ RegisterAt

MountSpec == Init /\ [][MountNext]_vars

----------------------------------------------------------------------------
(* The shared read operations. *)

\* Rocket<Ignite>::config and Rocket<Orbit>::config
config(r) == r.config

\* Rocket::state::<T>: try_get on the managed state of whatever phase.
state(r, type) ==
    IF type \in DOMAIN r.state.vals THEN Some(r.state.vals[type]) ELSE None

\* Rocket::routes
Routes(r) == IF r.phase = "Build" THEN r.routes ELSE r.router.routes

\* Rocket::catchers
Catchers(r) == IF r.phase = "Build" THEN r.catchers ELSE r.router.catchers

\* Rocket::figment
figment(r) == r.figment

\* Routes, catchers, managed types, attached fairings and figment.
Collections(r) ==
    [ routes   |-> Routes(r),
      catchers |-> Catchers(r),
      state    |-> r.state.types,
      fairings |-> r.fairings.all,
      figment  |-> r.figment ]

Alive(r) == r.phase \in {"Build", "Ignite", "Orbit"}

LaunchEntries == {"launch_with", "launch_on", "try_launch_on"}

IgniteErrors ==
    {"FailedFairings", "Config", "InsecureSecretKey", "Collisions",
     "SentinelAborts"}

\* The entry point returned an error of ignite().
IgniteFailed == result.tag = "Err" /\ result.kind \in IgniteErrors

\* try_wait_shutdown returned Ok: to launch's caller, or inside a Liftoff
\* error.
DrainedOk ==
    /\ pc = "done"
    /\ entry \in LaunchEntries
    /\ \/ result.tag = "Ok"
       \/ result.tag = "Err" /\ result.kind = "Liftoff" /\ result.data.tag = "Ok"

\* try_wait_shutdown returned Err.
DrainedErr ==
    /\ pc = "done"
    /\ result.tag = "Err"
    /\ \/ result.kind = "Shutdown"
       \/ result.kind = "Liftoff" /\ result.data.tag = "Err"

InDrain == pc \in {"drain", "sleeping", "unwrap"}

----------------------------------------------------------------------------
(* Claims. *)

\* A change of the collections is the effect of one Build-phase operation.
BuildOperation(r, q) ==
    \/ \E base \in Bases, items \in Items(RouteVals) : q = mount(r, base, items)
    \/ \E base \in Bases, items \in Items(CatcherVals) :
          q = register(r, base, items)
    \/ \E type \in Types, value \in Values : q = manage(r, type, value)
    \/ \E f \in FairingVals \cup {Shield} : q = attach(r, f)
    \/ \E p \in Providers : q = reconfigure(r, p)

\* C1: the routes, catchers, managed types, attached fairings and figment of
\* an instance change only by mount, register, manage, attach or reconfigure
\* applied to it in the Build phase; none of the five is enabled in the
\* Ignite or Orbit phase, and no step taken from there (into_orbit, liftoff,
\* serving, try_wait_shutdown, deorbit) changes them.
C1_MutationOnlyInBuild ==
    /\ [] ( (\/ ENABLED Mount \/ ENABLED Register \/ ENABLED Manage
             \/ ENABLED Attach \/ ENABLED Reconfigure)
            => rocket.phase = "Build" )
    /\ [][ (/\ Alive(rocket) /\ Alive(rocket')
            /\ Collections(rocket') # Collections(rocket))
           => (/\ rocket.phase = "Build" /\ rocket'.phase = "Build"
               /\ BuildOperation(rocket, rocket')) ]_vars

\* C1 witness: a launch returned the instance after orbit and shutdown, with
\* routes mounted, state managed and a fairing attached.
C1_Witness ==
    /\ pc = "done" /\ entry \in LaunchEntries /\ result.tag = "Ok"
    /\ rocket.phase = "Ignite"
    /\ Len(Routes(rocket)) > 0
    /\ rocket.state.types # {}
    /\ Len(rocket.fairings.all) > 1

\* C2: try_wait_shutdown returns Ok, with an instance back in the Ignite
\* phase, only when the coordinator's reference is the sole one; and launch
\* returns Ok only after a shutdown that was notified and whose drain
\* succeeded, the shutdown-fairing task having ended.
C2_OkOnlyWhenSoleOwner ==
    /\ DrainedOk =>
          /\ StrongCount(clones) = 1
          /\ rocket.phase = "Ignite"
    /\ (pc = "done" /\ entry \in LaunchEntries /\ result.tag = "Ok") =>
          /\ stages[rocket.shutdown]
          /\ hooks.shutdown = "done"
          /\ hooks.liftoff = "done"

\* C2 witness: launch returned Ok after connections had been served.
C2_Witness ==
    /\ pc = "done" /\ entry = "launch_with" /\ result.tag = "Ok"
    /\ served = MaxConns

\* C3: when Arc::try_unwrap finds other references, which happens only
\* after the full schedule, try_wait_shutdown returns the Arc of the
\* instance still in orbit, nothing panics, and launch returns it as a
\* Shutdown error (inside the Liftoff error when liftoff had faulted).
C3_TimeoutReturnsArc ==
    [][ (pc = "unwrap" /\ pc' # pc /\ StrongCount(clones) > 1)
        => (/\ Len(slept) = Len(Schedule)
            /\ pc' = "done"
            /\ rocket' = rocket /\ rocket.phase = "Orbit"
            /\ result'.tag = "Err"
            /\ IF hooks.liftoff = "fault"
               THEN /\ result'.kind = "Liftoff"
                    /\ result'.data = [tag |-> "Err", value |-> "Arc"]
               ELSE /\ result'.kind = "Shutdown"
                    /\ result'.data = "Arc") ]_vars

\* C3 witness: launch returned a Shutdown error after the whole schedule,
\* a connection task still holding its clone of the instance in orbit.
C3_Witness ==
    /\ pc = "done" /\ result.tag = "Err" /\ result.kind = "Shutdown"
    /\ Len(slept) = Len(Schedule)
    /\ rocket.phase = "Orbit"
    /\ clones.conns > 0

\* C4: a check of unique ownership follows every period, the last included:
\* the head of the loop sleeps on iff the count is above one, every wake-up
\* leads to a check (the loop's, or Arc::try_unwrap after the last period),
\* the outcome is decided by the count as it is at that final check, and once
\* the loop was left early the instance stays uniquely owned and no further
\* period is slept.
C4_CheckAfterEveryPeriod ==
    /\ [] ( (pc = "unwrap" /\ Len(slept) < Len(Schedule))
            => StrongCount(clones) = 1 )
    /\ [][ /\ (pc = "drain" /\ pc' # pc) =>
               /\ slept' = slept
               /\ pc' = IF StrongCount(clones) = 1 THEN "unwrap" ELSE "sleeping"
           /\ (pc = "sleeping" /\ pc' # pc) =>
               /\ Len(slept') = Len(slept) + 1
               /\ pc' = IF Len(slept') = 5 THEN "unwrap" ELSE "drain"
           /\ (pc = "unwrap" /\ pc' # pc) =>
               /\ slept' = slept
               /\ pc' = "done"
               /\ DrainedOk' <=> StrongCount(clones) = 1
               /\ DrainedErr' <=> StrongCount(clones) > 1 ]_vars

\* C4 witness: the last clone was dropped during the final pause, and the
\* check after it reported success.
C4_Witness ==
    /\ pc = "done" /\ result.tag = "Ok"
    /\ Len(slept) = Len(Schedule)
    /\ served > 0

\* C5: the periods slept are a prefix of settle pause, grace, settle pause,
\* mercy, final pause; the drain, once entered, returns whatever the
\* background tasks do; and if the instance is uniquely owned while the
\* drain is under way, launch returns the instance in the Ignite phase
\* (inside the Liftoff error when liftoff had faulted).
C5_DrainTerminates ==
    /\ [] ( /\ Len(slept) <= 5
            /\ slept = SubSeq(<< "wait", "grace", "wait", "mercy", "wait4" >>,
                               1, Len(slept)) )
    /\ (InDrain ~> pc = "done")
    /\ ((InDrain /\ StrongCount(clones) = 1)
          ~> (DrainedOk /\ rocket.phase = "Ignite"))
    /\ ((InDrain /\ StrongCount(clones) = 1 /\ hooks.liftoff = "done")
          ~> (pc = "done" /\ result.tag = "Ok"))

\* C5 witness: the drain returned after all five periods although a
\* connection task and the shutdown fairings never dropped their clones.
C5_Witness ==
    /\ pc = "done" /\ DrainedErr
    /\ slept = Schedule
    /\ clones.conns > 0 /\ clones.hooks > 0

\* C6 as claimed: the outcome of the drain does not depend on the shutdown
\* fairings having completed, so a drain with no connection ever accepted,
\* where only the fairings can be running, succeeds.
C6_OutcomeIgnoresHooks ==
    (pc = "done" /\ hooks.liftoff = "done" /\ hooks.shutdown # "idle"
        /\ served = 0)
    => result.tag = "Ok"

\* C6 amended: the shutdown fairings are spawned before the first period
\* and the coordinator never waits for them: every step of the drain is
\* enabled while they run. Their task holds a clone of the Arc, though, so
\* the drain succeeds only once they have completed.
C6_HooksRaceTheDrain ==
    /\ (InDrain \/ slept # << >>) => hooks.shutdown # "idle"
    /\ pc = "drain" => ENABLED DrainCheck
    /\ pc = "sleeping" => ENABLED DrainWake
    /\ pc = "unwrap" => ENABLED Unwrap
    /\ hooks.shutdown = "running" => clones.hooks = 1
    /\ DrainedOk => hooks.shutdown = "done"

\* C6 witness: the coordinator is past the grace period while the shutdown
\* fairings are still running.
C6_Witness ==
    /\ pc = "sleeping" /\ Len(slept) >= 2
    /\ hooks.shutdown = "running"
    /\ clones.conns = 0

\* What makes each step of ignite() fail, read off the Build instance as
\* handle_ignite left it.
AuditFails(r) == r.fairings.failures # << >>
ConfigFails(r) == ~r.figment[Len(r.figment)].valid
SecretFails(r) ==
    /\ secrets
    /\ r.figment[Len(r.figment)].secret # "provided"
    /\ r.figment[Len(r.figment)].profile # "debug"
RouterFails(r) ==
    \/ \E i, j \in DOMAIN r.routes : i # j /\ r.routes[i] = r.routes[j]
    \/ \E i, j \in DOMAIN r.catchers : i # j /\ r.catchers[i] = r.catchers[j]
SentinelFails(r) ==
    \E i \in DOMAIN r.routes : r.routes[i].needs \notin r.state.types \cup {"none"}

\* The error of the first step that fails, in the documented order.
FirstFailing(r) ==
    CASE AuditFails(r) -> "FailedFairings"
      [] ~AuditFails(r) /\ ConfigFails(r) -> "Config"
      [] ~AuditFails(r) /\ ~ConfigFails(r) /\ SecretFails(r) -> "InsecureSecretKey"
      [] ~AuditFails(r) /\ ~ConfigFails(r) /\ ~SecretFails(r) /\ RouterFails(r)
            -> "Collisions"
      [] ~AuditFails(r) /\ ~ConfigFails(r) /\ ~SecretFails(r) /\ ~RouterFails(r)
            /\ SentinelFails(r) -> "SentinelAborts"
      [] OTHER -> "none"

\* handle_ignite has returned and the rest of ignite() is about to run.
AboutToIgnite == pc = "ignite_hooks" /\ HandleIgniteDone(rocket, hooks.ignite)

\* The steps of ignite() in the documented order; the secret check is
\* compiled in only with the "secrets" feature.
StepOrder ==
    IF secrets
    THEN << "hooks", "audit", "config", "secret", "router", "freeze", "sentinels" >>
    ELSE << "hooks", "audit", "config", "router", "freeze", "sentinels" >>

\* The step that returns each error.
StepOf(kind) ==
    CASE kind = "FailedFairings" -> "audit"
      [] kind = "Config" -> "config"
      [] kind = "InsecureSecretKey" -> "secret"
      [] kind = "Collisions" -> "router"
      [] kind = "SentinelAborts" -> "sentinels"

\* C7: when a step of ignite() fails, the caller gets one error of the five
\* kinds and the instance is gone; an instance in the Ignite or Orbit phase
\* exists only if no fairing failed, a configuration was extracted, the
\* secret key is safe, nothing collides and no sentinel aborts.
C7_IgniteFailureYieldsNoInstance ==
    /\ IgniteFailed => (rocket = Dropped /\ pc = "done" /\ stages = << >>)
    /\ AboutToIgnite => \A gen \in BOOLEAN :
          LET o == IgniteAudit(rocket, secrets, gen, 1, steps)
          IN  IF FirstFailing(rocket) = "none"
              THEN o.out.tag = "Ok"
              ELSE o.out.tag = "Err" /\ o.out.kind \in IgniteErrors
    /\ rocket.phase \in {"Ignite", "Orbit"} =>
          /\ rocket.fairings.failures = << >>
          /\ ConfigTryFrom(rocket.figment).tag = "Ok"
          /\ (secrets /\ ~rocket.config.secret_key.provided)
                => rocket.config.profile = "debug"
          /\ Collisions(rocket.router.routes) = {}
          /\ Collisions(rocket.router.catchers) = {}
          /\ SentinelAborts(rocket) = {}

\* C7 witness: ignite() failed at its last step, the sentinels, and the
\* instance is gone.
C7_Witness ==
    /\ IgniteFailed /\ result.kind = "SentinelAborts"
    /\ rocket = Dropped

\* C8: ignite() runs its steps in the order hooks, audit, configuration,
\* secret key, router, freeze, sentinels and stops at the first that fails,
\* whose error it returns; managed state is frozen only after the router
\* step succeeded; and the configuration is the one extracted from the
\* figment as the ignite fairings left it.
C8_IgniteStepOrder ==
    /\ steps = SubSeq(StepOrder, 1, Len(steps))
    /\ pc = "ignite_hooks" => steps = << "hooks" >>
    /\ rocket.phase = "Build" => ~rocket.state.frozen
    /\ IgniteFailed => steps[Len(steps)] = StepOf(result.kind)
    /\ rocket.phase \in {"Ignite", "Orbit"} =>
          /\ steps = StepOrder
          /\ rocket.state.frozen
          /\ rocket.config.profile = rocket.figment[Len(rocket.figment)].profile
    /\ AboutToIgnite => \A gen \in BOOLEAN :
          LET o == IgniteAudit(rocket, secrets, gen, 1, steps)
              first == FirstFailing(rocket)
          IN  /\ o.out.tag = "Err" => o.out.kind = first
              /\ o.out.tag = "Ok" => first = "none"
              /\ o.steps = SubSeq(StepOrder, 1, Len(o.steps))
              /\ o.out.tag = "Err" => o.steps[Len(o.steps)] = StepOf(o.out.kind)
              /\ (\E i \in DOMAIN o.steps : o.steps[i] = "freeze")
                    <=> first \in {"none", "SentinelAborts"}

\* C8 witness: two ignite fairings ran, the second failed, and ignite()
\* stopped at the audit.
C8_Witness ==
    /\ IgniteFailed /\ result.kind = "FailedFairings"
    /\ steps = << "hooks", "audit" >>
    /\ hooks.ignite > 3

\* C9: with the "secrets" feature and no secret key provided, and the steps
\* before the secret check passing: outside the debug profile ignite()
\* returns InsecureSecretKey and no instance; in the debug profile it does
\* not, and an instance it returns has a key that was not provided, zero
\* only if the configured key was zero and generation failed.
C9_InsecureSecretKey ==
    /\ (result.tag = "Err" /\ result.kind = "InsecureSecretKey") =>
          (rocket = Dropped /\ secrets /\ result.data # "debug")
    /\ (rocket.phase \in {"Ignite", "Orbit"} /\ secrets
          /\ ~rocket.config.secret_key.provided)
       => rocket.config.profile = "debug"
    /\ (/\ AboutToIgnite /\ secrets
        /\ ~AuditFails(rocket) /\ ~ConfigFails(rocket)
        /\ rocket.figment[Len(rocket.figment)].secret # "provided")
       => \A gen \in BOOLEAN :
            LET o == IgniteAudit(rocket, secrets, gen, 1, steps)
                p == rocket.figment[Len(rocket.figment)]
            IN  IF p.profile # "debug"
                THEN /\ o.out.tag = "Err"
                     /\ o.out.kind = "InsecureSecretKey"
                     /\ o.out.data = p.profile
                ELSE /\ o.out.tag = "Err" => o.out.kind # "InsecureSecretKey"
                     /\ o.out.tag = "Ok" =>
                          /\ ~o.out.rocket.config.secret_key.provided
                          /\ o.out.rocket.config.secret_key.zero
                                <=> (p.secret = "none" /\ ~gen)

\* C9 witness: ignite() returned InsecureSecretKey for the release profile.
C9_Witness ==
    /\ result.tag = "Err" /\ result.kind = "InsecureSecretKey"
    /\ result.data = "release"
    /\ rocket = Dropped

\* C10 as claimed: when a launch entry point returns an error of ignite(),
\* it has neither performed nor attempted a binding.
C10_NoBindBeforeIgniteError ==
    (IgniteFailed /\ entry \in LaunchEntries) => bound \notin {"entry", "failed"}

\* The entry point returned a Bind error.
BindFailed == result.tag = "Err" /\ result.kind = "Bind"

\* C11: when binding fails (B::bind in launch_with, the listener future in
\* try_launch_on) the entry point returns a Bind error at once and the
\* instance is consumed without ever being in orbit: the signal listener was
\* not spawned, no liftoff fairing ran, no connection was accepted, no
\* shutdown fairing ran and no period of the drain was slept.
C11_BindFailureNeverOrbits ==
    /\ [] ( bound = "failed" =>
              /\ pc = "done" /\ BindFailed
              /\ rocket = Dropped
              /\ ~listening
              /\ hooks.liftoff = "idle" /\ hooks.shutdown = "idle"
              /\ served = 0 /\ clones.conns = 0
              /\ slept = << >> )
    /\ [] ( BindFailed => bound = "failed" )
    /\ [][ (bound # "failed" /\ bound' = "failed")
              => (/\ pc \in {"bind", "listener"} /\ pc' = "done"
                  /\ rocket.phase # "Orbit" /\ rocket' = Dropped) ]_vars

\* C11 witness: launch_with ignited a Build instance with a mounted route,
\* B::bind failed, and the Bind error carrying the endpoint was returned.
C11_Witness ==
    /\ pc = "done" /\ entry = "launch_with" /\ bound = "failed"
    /\ BindFailed /\ result.data.endpoint = "addr"
    /\ steps # << >>
    /\ calls > 0

\* The shutdown of the instance has been notified.
Notified == rocket.phase \in {"Ignite", "Orbit"} /\ stages[rocket.shutdown]

\* C12: the signal listener is running whenever a liftoff fairing is (it is
\* spawned before the liftoff task), so a signal can be caught during
\* liftoff; a notification is never taken back while the instance is in
\* orbit; and once the shutdown is notified during liftoff, either liftoff
\* never ends or launch returns: straight from liftoff the server leaves
\* without accepting, and the drain ends.
C12_SignalDuringLiftoffNotLost ==
    /\ [] ( hooks.liftoff = "running" => (listening /\ pc = "liftoff") )
    /\ [] ( pc = "liftoff" => ENABLED Notify )
    /\ [][ (Notified /\ rocket'.phase = "Orbit") => Notified' ]_vars
    /\ [] ( (pc = "liftoff" /\ Notified)
              => ([](pc = "liftoff") \/ <>(pc = "done")) )
    /\ [] ( (pc = "serving" /\ Notified) => ENABLED ServeExit )

\* C12 witness: liftoff is running, the listener is up and the shutdown has
\* been notified.
C12_Witness ==
    /\ pc = "liftoff" /\ hooks.liftoff = "running" /\ listening
    /\ Notified
    /\ entry = "launch_with"

\* C13: a liftoff fairing runs only on an instance in orbit that holds its
\* endpoint, the listener having been bound (by the entry point or by the
\* caller); a connection is accepted only once the liftoff task has been
\* joined without fault, so none is accepted or in flight while liftoff is
\* running, and none at all before liftoff or after a faulted liftoff.
C13_LiftoffBeforeServing ==
    /\ [] ( hooks.liftoff = "running" =>
              /\ rocket.phase = "Orbit"
              /\ Len(rocket.endpoints) > 0
              /\ bound \in {"entry", "caller"}
              /\ served = 0 /\ clones.conns = 0 )
    /\ [] ( hooks.liftoff # "done" => (served = 0 /\ clones.conns = 0) )
    /\ [] ( ENABLED Accept => hooks.liftoff = "done" )
    /\ [] ( hooks.liftoff # "idle" => rocket.phase \in {"Orbit", "Ignite"} )
    /\ [][ hooks.liftoff' # hooks.liftoff =>
              \/ /\ hooks.liftoff = "idle" /\ hooks.liftoff' = "running"
                 /\ rocket.phase = "Ignite" /\ rocket'.phase = "Orbit"
              \/ /\ hooks.liftoff = "running"
                 /\ hooks.liftoff' \in {"done", "fault"} ]_vars
    /\ [][ served' # served =>
              (hooks.liftoff = "done" /\ rocket.phase = "Orbit") ]_vars

\* C13 witness: after a liftoff that ended without fault the server, on the
\* listener the entry point bound, has accepted connections.
C13_Witness ==
    /\ pc = "serving" /\ hooks.liftoff = "done"
    /\ bound = "entry" /\ rocket.phase = "Orbit"
    /\ served = MaxConns /\ clones.conns > 0

\* C14: after a faulted liftoff the server never serves: _launch goes
\* straight to try_wait_shutdown, whose shutdown fairings are spawned and
\* whose loop runs until the instance is uniquely owned or the schedule is
\* over, and only then returns, always ErrorKind::Liftoff holding the
\* JoinError and what try_wait_shutdown returned: Ok with the instance
\* back in the Ignite phase, or Err with the Arc of the instance in orbit.
C14_LiftoffFaultDrainsThenErr ==
    /\ [] ( hooks.liftoff = "fault" =>
              /\ pc \in {"shutdown", "drain", "sleeping", "unwrap", "done"}
              /\ served = 0 /\ clones.conns = 0
              /\ ~ENABLED Accept )
    /\ [] ( (hooks.liftoff = "fault" /\ pc = "done") =>
              /\ hooks.shutdown # "idle"
              /\ result.tag = "Err" /\ result.kind = "Liftoff"
              /\ result.fault = "JoinError"
              /\ \/ /\ result.data = [tag |-> "Ok", value |-> "Ignite"]
                    /\ rocket.phase = "Ignite"
                 \/ /\ result.data = [tag |-> "Err", value |-> "Arc"]
                    /\ rocket.phase = "Orbit"
                    /\ Len(slept) = Len(Schedule) )
    /\ [] ( (result.tag = "Err" /\ result.kind = "Liftoff")
              => hooks.liftoff = "fault" )
    /\ [][ (hooks.liftoff = "fault" /\ pc # "done" /\ pc' = "done") =>
              /\ pc = "unwrap"
              /\ result'.data.tag = "Ok" <=> StrongCount(clones) = 1 ]_vars
    /\ [][ (pc = "liftoff" /\ hooks.liftoff' = "fault") =>
              pc' = "shutdown" ]_vars

\* C14 witness: liftoff faulted, the drain found the instance uniquely
\* owned once the shutdown fairings had ended after the first period, and
\* launch returned the Liftoff error with the recovered instance.
C14_Witness ==
    /\ pc = "done" /\ hooks.liftoff = "fault"
    /\ result.tag = "Err" /\ result.kind = "Liftoff"
    /\ result.data.tag = "Ok" /\ rocket.phase = "Ignite"
    /\ hooks.shutdown = "done" /\ Len(slept) = 1

\* C15: a shutdown notified on an instance in the Ignite phase, before it
\* goes into orbit, stops nothing of the launch: the entry points can be
\* called, the bind and _launch are enabled as ever, orbit is entered with
\* the notification still standing and the liftoff fairings run; after
\* liftoff the server can leave at once, no further notification being
\* needed, and unless liftoff never ends launch returns.
C15_NotifiedBeforeLaunch ==
    /\ [] ( (pc = "ignited" /\ Notified) =>
              /\ ENABLED CallLaunchWith
              /\ ENABLED CallLaunchOn
              /\ ENABLED CallTryLaunchOn )
    /\ [] ( pc = "bind" => ENABLED Bind )
    /\ [] ( pc = "launch" => (rocket.phase = "Ignite" /\ ENABLED Launch) )
    /\ [][ (pc = "launch" /\ Notified /\ pc' # pc) =>
              /\ pc' = "liftoff" /\ hooks'.liftoff = "running"
              /\ rocket'.phase = "Orbit"
              /\ Notified' ]_vars
    /\ [][ (pc = "liftoff" /\ Notified /\ pc' # pc) =>
              /\ Notified'
              /\ pc' = "serving" => hooks'.liftoff = "done" ]_vars
    /\ [] ( (pc = "serving" /\ Notified) => ENABLED ServeExit )
    /\ [] ( (pc = "launch" /\ Notified) => <>(hooks.liftoff = "running") )
    /\ [] ( (pc = "launch" /\ Notified)
              => (<>[](pc = "liftoff") \/ <>(pc = "done")) )

\* C15 witness: the shutdown of an instance still in the Ignite phase is
\* notified, launch_with has bound its listener, and _launch is about to
\* take the instance into orbit.
C15_Witness ==
    /\ pc = "launch" /\ entry = "launch_with" /\ bound = "entry"
    /\ rocket.phase = "Ignite" /\ Notified
    /\ hooks.liftoff = "idle"

\* Everything but the shutdown stages.
Rest ==
    <<rocket, pc, entry, calls, secrets, steps, bound, listening, clones,
      slept, hooks, served, result>>

\* C16: in the Ignite and Orbit phases a handle from shutdown() notifies
\* the shutdown of the instance and changes nothing else; notifying a
\* shutdown already notified changes nothing at all, so every state and
\* every outcome of launch after two notifications is one after a single
\* notification; and in one launch the shutdown fairings are spawned once
\* and try_wait_shutdown is entered once, its periods slept in order and
\* never again after it returned.
C16_NotifyIdempotent ==
    /\ [] ( (rocket.phase \in {"Ignite", "Orbit"}
               /\ pc \notin {"done", "panicked"})
              => ENABLED (Notify /\ Notified') )
    /\ [] ( ~ENABLED (Notify /\ Rest' # Rest) )
    /\ [] ( Notified => ~ENABLED (Notify /\ vars' # vars) )
    /\ [][ (Notified /\ rocket'.phase \in {"Ignite", "Orbit"})
              => Notified' ]_vars
    /\ [][ hooks'.shutdown # hooks.shutdown =>
              \/ /\ hooks.shutdown = "idle" /\ hooks'.shutdown = "running"
                 /\ pc = "shutdown" /\ pc' = "drain"
              \/ /\ hooks.shutdown = "running" /\ hooks'.shutdown = "done" ]_vars
    /\ [][ (pc # "shutdown" /\ pc' = "shutdown") =>
              (hooks.shutdown = "idle" /\ slept = << >>) ]_vars
    /\ [][ slept' # slept =>
              (/\ pc = "sleeping"
               /\ slept' = SubSeq(Schedule, 1, Len(slept) + 1)) ]_vars
    /\ [][ pc = "done" => (pc' = "done" /\ slept' = slept
                            /\ result' = result) ]_vars

\* C16 witness: the server is serving a connection, the shutdown is
\* notified, and a handle can be notified again.
C16_Witness ==
    /\ pc = "serving" /\ Notified /\ clones.conns > 0
    /\ ENABLED Notify
    /\ ENABLED ServeExit

\* C17: an entry point of launch called on a Build instance runs ignite()
\* first, and the instance reaches orbit only after one whole pass (every
\* step of StepOrder, once, in order); called on an instance already in the
\* Ignite phase it goes straight to the bind or to _launch: no ignite
\* fairing runs, no step of ignite() is taken, and the config, the router
\* and the shutdown stay those of the first pass. A step of ignite() is only
\* ever taken on a Build instance, and an instance is ignited at most once.
C17_IgnitesExactlyOnce ==
    /\ [] ( rocket.phase \in {"Ignite", "Orbit"} =>
              /\ steps = StepOrder
              /\ Len(stages) = 1 /\ rocket.shutdown = 1
              /\ rocket.state.frozen
              /\ hooks.ignite > 0 )
    /\ [] ( Len(stages) <= 1 /\ steps = SubSeq(StepOrder, 1, Len(steps)) )
    /\ [] ( (pc = "build" /\ rocket.phase = "Build")
              => ENABLED (CallLaunchWith /\ pc' = "ignite_hooks"
                            /\ steps' = << "hooks" >>) )
    /\ [][ (steps' # steps \/ hooks'.ignite # hooks.ignite
             \/ Len(stages') # Len(stages))
              => rocket.phase = "Build" ]_vars
    /\ [][ (rocket.phase = "Ignite" /\ rocket'.phase \in {"Ignite", "Orbit"}) =>
              /\ steps' = steps /\ hooks'.ignite = hooks.ignite
              /\ Len(stages') = Len(stages)
              /\ rocket'.config = rocket.config
              /\ rocket'.router = rocket.router
              /\ rocket'.shutdown = rocket.shutdown
              /\ rocket'.state = rocket.state ]_vars
    /\ [][ (pc = "ignited" /\ pc' # pc) =>
              /\ pc' \in {"bind", "launch", "listener"}
              /\ rocket' = rocket /\ steps' = steps /\ hooks' = hooks ]_vars
    /\ [][ (pc = "listener" /\ rocket.phase = "Ignite" /\ pc' # pc) =>
              (pc' \in {"launch", "done"} /\ steps' = steps) ]_vars

\* C17 witness: the caller holds an instance ignite() returned, with routes
\* in its router and an ignite fairing that ran, and launch_on takes it
\* straight to _launch with no step of ignite() added.
C17_Witness ==
    /\ pc = "ignited" /\ rocket.phase = "Ignite"
    /\ steps = StepOrder
    /\ Len(rocket.router.routes) > 0
    /\ hooks.ignite > 2
    /\ ENABLED (CallLaunchOn /\ pc' = "launch" /\ steps' = steps
                  /\ hooks' = hooks)

\* C18: the configuration ignite() derived (extracted from the figment as
\* it stood after the ignite fairings, a generated secret key included) is
\* what config() returns from then on: no step taken in the Ignite or Orbit
\* phase, into_orbit and deorbit included, changes it or the figment; no
\* reconfigure is possible there; and the instance launch returns after
\* the shutdown has the configuration it was launched with.
C18_ConfigFrozen ==
    /\ [][ (/\ rocket.phase \in {"Ignite", "Orbit"}
             /\ rocket'.phase \in {"Ignite", "Orbit"})
              => (/\ config(rocket') = config(rocket)
                  /\ rocket'.figment = rocket.figment) ]_vars
    /\ [][ (rocket.phase = "Build" /\ rocket'.phase = "Ignite") =>
              LET c == ConfigTryFrom(rocket.figment).config
              IN  /\ rocket'.figment = rocket.figment
                  /\ config(rocket').profile = c.profile
                  /\ config(rocket').secret_key.provided = c.secret_key.provided
                  /\ (~secrets \/ c.secret_key.provided \/ ~c.secret_key.zero)
                        => config(rocket') = c ]_vars
    /\ [] ( rocket.phase \in {"Ignite", "Orbit"} => ~ENABLED Reconfigure )
    /\ [] ( rocket.phase \in {"Ignite", "Orbit"} =>
              /\ config(rocket).profile
                    = rocket.figment[Len(rocket.figment)].profile
              /\ config(rocket).secret_key.provided
                    <=> rocket.figment[Len(rocket.figment)].secret = "provided" )

\* C18 witness: launch returned, after orbit and shutdown, an instance whose
\* configuration holds the secret key ignite() generated, which a fresh
\* extraction from its figment would not give.
C18_Witness ==
    /\ pc = "done" /\ entry \in LaunchEntries /\ result.tag = "Ok"
    /\ rocket.phase = "Ignite" /\ secrets
    /\ ~config(rocket).secret_key.provided
    /\ ~config(rocket).secret_key.zero
    /\ config(rocket) # ConfigTryFrom(rocket.figment).config

\* C19: in a chain of manage calls, a value of a type not yet managed is
\* stored and a value of a type already managed makes manage panic, the
\* instance being lost with it; so a managed value is never replaced or
\* removed, managing one type leaves the value of the other as it was,
\* and state::<T>() is Some, of the one value managed, exactly for the
\* types managed.
C19_OneValuePerType ==
    /\ [] ( Alive(rocket) => \A t \in Types :
              /\ state(rocket, t) # None <=> t \in rocket.state.types
              /\ state(rocket, t) \in {None} \cup {Some(v) : v \in Values} )
    /\ [] ( Alive(rocket) => DOMAIN rocket.state.vals = rocket.state.types )
    /\ [][ (Alive(rocket) /\ Alive(rocket')) => \A t \in Types :
              state(rocket, t) # None => state(rocket', t) = state(rocket, t) ]_vars
    /\ [] ( Assembling => \A t \in Types, v \in Values :
              IF state(rocket, t) = None
              THEN /\ ENABLED (ManageStep(t, v) /\ pc' = "build"
                                 /\ state(rocket', t) = Some(v))
                   /\ ~ENABLED (ManageStep(t, v) /\ pc' = "panicked")
              ELSE /\ ENABLED (ManageStep(t, v) /\ pc' = "panicked"
                                 /\ rocket' = Dropped)
                   /\ ~ENABLED (ManageStep(t, v) /\ pc' = "build") )
    /\ [][ pc' = "panicked" =>
              (rocket' = Dropped /\ rocket.state.types # {}) ]_vars

\* C19 witness: values of two types are managed, each retrievable, and a
\* further manage of either type would panic.
C19_Witness ==
    /\ Assembling
    /\ state(rocket, "T1") = Some("v2")
    /\ state(rocket, "T2") = Some("v1")
    /\ ENABLED (ManageStep("T1", "v1") /\ pc' = "panicked")

\* The places of the singleton fairings of a type in a list of fairings.
SingletonsOf(all, type) ==
    { i \in DOMAIN all : all[i].singleton /\ all[i].type = type }

\* A step of the Build phase that is an attach: a call that returned and
\* left the managed state alone.
AttachReturned ==
    /\ Assembling /\ calls' = calls + 1 /\ pc' = "build"
    /\ rocket'.state = rocket.state

\* C20: after any chain of attach calls the list holds at most one
\* singleton fairing of a type. Every attach puts its fairing last; a
\* singleton with a fairing of its type attached at place k removes that
\* one, the fairings after k moving up one place and the list keeping its
\* length, so the one left is the one attached last; any other attach
\* lengthens the list by one and moves nothing.
C20_SingletonReplacedAtEnd ==
    /\ [] ( Alive(rocket) => \A f \in AttachVals :
              Cardinality(SingletonsOf(rocket.fairings.all, f.type)) <= 1 )
    /\ [][ AttachReturned =>
              LET old == rocket.fairings.all
                  new == rocket'.fairings.all
                  f == new[Len(new)]
                  was == SingletonsOf(old, f.type)
              IN  /\ new # << >> /\ f \in AttachVals
                  /\ IF f.singleton /\ was # {}
                     THEN LET k == CHOOSE i \in was : TRUE
                          IN  /\ Len(new) = Len(old)
                              /\ \A i \in 1 .. (k - 1) : new[i] = old[i]
                              /\ \A i \in k .. (Len(old) - 1) : new[i] = old[i + 1]
                              /\ SingletonsOf(new, f.type) = {Len(new)}
                     ELSE new = Append(old, f) ]_vars
    /\ [] ( Assembling => \A f \in AttachVals :
              ENABLED (AttachStep(f) /\ AttachReturned
                         /\ rocket'.fairings.all[Len(rocket'.fairings.all)] = f) )

\* C20 witness: after three attach calls the singleton attached second
\* stands alone of its type, last in the list, behind the regular fairing
\* that was attached after the first singleton.
C20_Witness ==
    /\ pc = "build" /\ calls = 3 /\ rocket.state.types = {}
    /\ rocket.fairings.all
          = << Shield, MyFairing("some state"), MySingletonFairing("second") >>

\* The path of a base as written: the text before its query.
PathOf(text) ==
    IF QueryAt(text) = 0 THEN text ELSE SubSeq(text, 1, QueryAt(text) - 1)

\* The bases that are valid origin URIs.
ValidBases == { b \in BaseTexts : TryIntoOrigin(b).tag = "Ok" }

\* The reference join of a base path and a route path: the base path for
\* the route path "/", else the two with one slash between them.
JoinPaths(base, route) ==
    IF route = << "/" >> THEN base
    ELSE IF base[Len(base)] = "/" THEN base \o Tail(route)
    ELSE base \o route

\* The rows of the table in the documentation of mount.
MountTable ==
    { << << "/" >>, Origin(<< "/", "foo" >>, None),
         Origin(<< "/", "foo" >>, None) >>,
      << << "/" >>, Origin(<< "/", "foo", "/" >>, None),
         Origin(<< "/", "foo", "/" >>, None) >>,
      << << "/", "foo" >>, Origin(<< "/" >>, None),
         Origin(<< "/", "foo" >>, None) >>,
      << << "/", "foo" >>, Origin(<< "/" >>, Some(<< "bar" >>)),
         Origin(<< "/", "foo" >>, Some(<< "bar" >>)) >>,
      << << "/", "foo" >>, Origin(<< "/", "bar" >>, None),
         Origin(<< "/", "foo", "/", "bar" >>, None) >>,
      << << "/", "foo" >>, Origin(<< "/", "bar", "/" >>, None),
         Origin(<< "/", "foo", "/", "bar", "/" >>, None) >>,
      << << "/", "foo", "/" >>, Origin(<< "/" >>, None),
         Origin(<< "/", "foo", "/" >>, None) >>,
      << << "/", "foo", "/" >>, Origin(<< "/", "bar" >>, None),
         Origin(<< "/", "foo", "/", "bar" >>, None) >>,
      << << "/", "foo", "/" >>, Origin(<< "/" >>, Some(<< "bar" >>)),
         Origin(<< "/", "foo", "/" >>, Some(<< "bar" >>)) >>,
      << << "/", "foo", "/", "bar" >>, Origin(<< "/" >>, None),
         Origin(<< "/", "foo", "/", "bar" >>, None) >>,
      << << "/", "foo", "/", "bar", "/" >>, Origin(<< "/" >>, None),
         Origin(<< "/", "foo", "/", "bar", "/" >>, None) >>,
      << << "/", "foo", "/", "?", "bar" >>, Origin(<< "/" >>, None),
         Origin(<< "/", "foo", "/" >>, None) >>,
      << << "/", "foo", "/", "?", "bar" >>, Origin(<< "/", "baz" >>, None),
         Origin(<< "/", "foo", "/", "baz" >>, None) >>,
      << << "/", "foo", "/", "?", "bar" >>, Origin(<< "/", "baz", "/" >>, None),
         Origin(<< "/", "foo", "/", "baz", "/" >>, None) >> }

\* The route mounted last.
LastRoute(r) == r.routes[Len(r.routes)]

\* A step that is a mount that returned: one more route.
MountReturned ==
    /\ Mounting /\ pc' = "build"
    /\ Len(rocket'.routes) = Len(rocket.routes) + 1

\* C21: mount of a route at a valid base returns with the route's
\* effective URI equal to the reference join: its path is the base path
\* for the route path "/" and otherwise the base path and the route path
\* with one slash between them, and its query is the route's own; every
\* row of the table in the documentation of mount comes out as written;
\* and no effective path has an empty segment. The join is tried on the
\* instance as built and after any one call; every mount step of a longer
\* chain gives the join of the base it stored and one of the route URIs.
C21_EffectiveUriIsJoin ==
    /\ [] ( (Mounting /\ calls < 2) => \A b \in ValidBases, u \in RouteUris :
              ENABLED (/\ MountStep(b, << RouteAt(u) >>)
                       /\ pc' = "build"
                       /\ Len(rocket'.routes) = Len(rocket.routes) + 1
                       /\ LastRoute(rocket').uri
                             = Origin(JoinPaths(PathOf(b), u.path), u.query)) )
    /\ [] ( (Mounting /\ calls < 2) => \A row \in MountTable :
              ENABLED (/\ MountStep(row[1], << RouteAt(row[2]) >>)
                       /\ LastRoute(rocket').uri = row[3]) )
    /\ [][ MountReturned =>
              LET new == LastRoute(rocket')
              IN  \E u \in RouteUris :
                    new.uri = Origin(JoinPaths(new.base.path, u.path), u.query) ]_vars
    /\ [] ( rocket.phase = "Build" => \A i \in DOMAIN rocket.routes :
              LET path == rocket.routes[i].uri.path
              IN  /\ path[1] = "/"
                  /\ \A k \in 1 .. (Len(path) - 1) :
                        ~(path[k] = "/" /\ path[k + 1] = "/") )

\* C21 witness: a route "/bar" mounted at "/foo/" and a route "/?bar"
\* mounted at "/foo" have the effective URIs "/foo/bar" and "/foo?bar".
C21_Witness ==
    /\ pc = "build" /\ rocket.phase = "Build" /\ Len(rocket.routes) = 2
    /\ rocket.routes[1].uri = Origin(<< "/", "foo", "/", "bar" >>, None)
    /\ rocket.routes[1].base.path = << "/", "foo", "/" >>
    /\ rocket.routes[2].uri = Origin(<< "/", "foo" >>, Some(<< "bar" >>))


\* The base texts that parse and carry a query.
QueryBases == { b \in ValidBases : QueryAt(b) # 0 }

LastCatcher(r) == r.catchers[Len(r.catchers)]

\* C22: a base with a query is accepted by mount and by register, and its
\* query is cleared before any item is rebased: the call returns, the base
\* stored with the new route or catcher has no query, the query of the
\* route's effective URI is the route's own, and no route or catcher of any
\* instance has a base with a query.
C22_BaseQueryRemoved ==
    /\ [] ( rocket.phase = "Build" =>
              /\ \A i \in DOMAIN rocket.routes : rocket.routes[i].base.query = None
              /\ \A i \in DOMAIN rocket.catchers :
                    rocket.catchers[i].base.query = None )
    /\ [] ( (Mounting /\ calls < 2) => \A b \in QueryBases :
              /\ \A u \in RouteUris :
                    ENABLED (/\ MountStep(b, << RouteAt(u) >>)
                             /\ pc' = "build"
                             /\ Len(rocket'.routes) = Len(rocket.routes) + 1
                             /\ LastRoute(rocket').base = Origin(PathOf(b), None)
                             /\ LastRoute(rocket').uri.query = u.query)
              /\ \A c \in CatcherVals :
                    ENABLED (/\ RegisterStep(b, << c >>)
                             /\ pc' = "build"
                             /\ Len(rocket'.catchers) = Len(rocket.catchers) + 1
                             /\ LastCatcher(rocket').base
                                   = Origin(PathOf(b), None)) )

\* A route mounted at "/foo/" is there; mounting "/baz" at "/foo/?bar"
\* gives the same entry again and registering there gives a catcher at
\* "/foo/".
C22_Witness ==
    /\ Mounting /\ Len(rocket.routes) = 1 /\ rocket.catchers = << >>
    /\ rocket.routes[1].uri = Origin(<< "/", "foo", "/", "baz" >>, None)
    /\ ENABLED (/\ MountStep(<< "/", "foo", "/", "?", "bar" >>,
                             << RouteAt(Origin(<< "/", "baz" >>, None)) >>)
                /\ rocket'.routes[2] = rocket.routes[1])
    /\ \E c \in CatcherVals :
          ENABLED (/\ RegisterStep(<< "/", "foo", "/", "?", "bar" >>, << c >>)
                   /\ rocket'.catchers[1].base
                         = Origin(<< "/", "foo", "/" >>, None))


\* The route URIs whose path is exactly the root path.
RootUris == { u \in RouteUris : u.path = << "/" >> }

\* C23, as stated: a route whose path is the root path gets the base
\* verbatim, trailing slash and query of the base included.
C23_AsStated ==
    [] ( (Mounting /\ calls < 2) =>
            \A b \in ValidBases :
               ENABLED (/\ MountStep(b, << RouteAt(Origin(<< "/" >>, None)) >>)
                        /\ LastRoute(rocket').uri = TryIntoOrigin(b).origin) )

\* C23: a route whose path is the root path gets the path of the base as
\* it was given, with a trailing slash exactly when the base has one; the
\* query of the base is dropped and the query of the effective URI is the
\* route's own.
C23_RootRouteKeepsBasePath ==
    [] ( (Mounting /\ calls < 2) =>
            \A b \in ValidBases, u \in RootUris :
               ENABLED (/\ MountStep(b, << RouteAt(u) >>)
                        /\ pc' = "build"
                        /\ LET new == LastRoute(rocket').uri
                           IN  /\ new.path = PathOf(b)
                               /\ new.query = u.query
                               /\ (new.path[Len(new.path)] = "/")
                                     = (PathOf(b)[Len(PathOf(b))] = "/")) )

\* The root route was mounted at "/foo/"; mounting it at "/foo/?bar" gives
\* "/foo/" again, without the query of the base.
C23_Witness ==
    /\ Mounting /\ Len(rocket.routes) = 1
    /\ rocket.routes[1].uri = Origin(<< "/", "foo", "/" >>, None)
    /\ rocket.routes[1].base.path = << "/", "foo", "/" >>
    /\ ENABLED (/\ MountStep(<< "/", "foo", "/", "?", "bar" >>,
                             << RouteAt(Origin(<< "/" >>, None)) >>)
                /\ LastRoute(rocket').uri = Origin(<< "/", "foo", "/" >>, None)
                /\ TryIntoOrigin(<< "/", "foo", "/", "?", "bar" >>).origin.query
                      = Some(<< "bar" >>))


\* The bases that are no static origin URI: no leading slash, a dynamic
\* parameter, an empty segment.
BadBases == { << "foo" >>, << "/", "<a>" >>, << "/", "/", "foo" >> }

\* C24: mount and register at a base that is malformed or has a dynamic
\* parameter panic: the call does not return, whatever the items are; the
\* instance, moved into the call, is gone with nothing added to it; and no
\* error value is handed to the caller.
C24_BadBasePanics ==
    /\ [] ( (Mounting /\ calls < 2) => \A b \in BadBases :
              /\ \A u \in RouteUris :
                    /\ ENABLED (/\ MountStep(b, << RouteAt(u) >>)
                                /\ pc' = "panicked" /\ rocket' = Dropped
                                /\ result' = result)
                    /\ ~ENABLED (/\ MountStep(b, << RouteAt(u) >>)
                                 /\ pc' # "panicked")
              /\ \A c \in CatcherVals :
                    /\ ENABLED (/\ RegisterStep(b, << c >>)
                                /\ pc' = "panicked" /\ rocket' = Dropped
                                /\ result' = result)
                    /\ ~ENABLED (/\ RegisterStep(b, << c >>)
                                 /\ pc' # "panicked") )
    /\ [] ( pc = "panicked" => rocket = Dropped /\ result = [tag |-> "none"] )
    /\ [][ pc' = "panicked" => pc = "build" /\ rocket' = Dropped ]_vars

\* One call returned, the next one panicked on its base.
C24_Witness ==
    /\ pc = "panicked" /\ rocket = Dropped
    /\ calls = 2 /\ result = [tag |-> "none"]


\* What reconfigure is to leave alone.
Assembled(r) == << r.routes, r.catchers, r.state, r.fairings >>

\* C25: reconfigure(p) sets the figment to the one made from p alone:
\* reconfigure(q) then reconfigure(p) gives what reconfigure(p) gives, and
\* reconfigure(p) twice what it gives once; the call returns for every
\* provider, one without a valid configuration included; and routes,
\* catchers, managed state and fairings are as before.
C25_ReconfigureReplaces ==
    Building =>
      \A p \in Providers :
         /\ reconfigure(rocket, p).figment = FigmentFrom(p)
         /\ Assembled(reconfigure(rocket, p)) = Assembled(rocket)
         /\ reconfigure(reconfigure(rocket, p), p) = reconfigure(rocket, p)
         /\ \A q \in Providers :
               reconfigure(reconfigure(rocket, q), p) = reconfigure(rocket, p)
         /\ ENABLED (/\ ReconfigureStep(p)
                     /\ pc' = "build" /\ result' = result
                     /\ rocket' = reconfigure(rocket, p)
                     /\ Assembled(rocket') = Assembled(rocket))
         /\ ~ENABLED (/\ ReconfigureStep(p)
                      /\ \/ pc' # "build"
                         \/ rocket'.figment # FigmentFrom(p))

\* A provider without a valid configuration was set on an instance with a
\* route: the call returned and the route is there.
C25_Witness ==
    /\ pc = "build" /\ rocket.phase = "Build" /\ calls = 2
    /\ rocket.figment = FigmentFrom(Provider(FALSE, "release", "none"))
    /\ Len(rocket.routes) = 1


\* C26, as stated: every Bind error returned by launch_with or
\* try_launch_on names the endpoint whose binding was attempted.
C26_AsStated == BindFailed => result.data.endpoint # "none"

\* C26: every Bind error returned by launch_with or try_launch_on carries
\* the error of the transport; the endpoint is optional: try_launch_on
\* never gives one, launch_with gives the one bind_endpoint could tell, if
\* it could.
C26_BindErrorCarriesTransportError ==
    BindFailed =>
       /\ entry \in {"launch_with", "try_launch_on"}
       /\ result.data.error = "io"
       /\ result.data.endpoint \in {"none", "addr"}
       /\ entry = "try_launch_on" => result.data.endpoint = "none"

\* The listener future given to try_launch_on failed: the Bind error has
\* the transport's error and no endpoint.
C26_Witness ==
    /\ pc = "done" /\ entry = "try_launch_on" /\ bound = "failed"
    /\ result = Err("Bind", [endpoint |-> "none", error |-> "io"])


\* The instance is as its constructor returned it: no call was made on it.
Fresh == pc = "build" /\ calls = 0

\* C27, as stated: a fresh instance has an empty configuration source and
\* no routes, catchers, managed values or fairings.
C27_AsStated ==
    Fresh => /\ rocket.phase = "Build"
             /\ rocket.figment = << >>
             /\ rocket.routes = << >> /\ rocket.catchers = << >>
             /\ rocket.state.types = {}
             /\ rocket.fairings.all = << >>

\* C27: a fresh instance is a Rocket<Build> without routes, catchers or
\* managed values; its figment is the one made from the provider given to
\* custom, the default provider for build, and Shield is attached to it.
C27_FreshHasProviderAndShield ==
    /\ Fresh =>
         /\ rocket = build
         /\ rocket.phase = "Build"
         /\ rocket.figment = FigmentFrom(DefaultProvider)
         /\ rocket.routes = << >> /\ rocket.catchers = << >>
         /\ rocket.state.types = {} /\ ~rocket.state.frozen
         /\ rocket.fairings.all = << Shield >>
         /\ rocket.fairings.failures = << >>
    /\ \A p \in Providers :
         /\ custom(p).phase = "Build"
         /\ custom(p).figment = FigmentFrom(p)
         /\ custom(p).routes = << >> /\ custom(p).catchers = << >>
         /\ custom(p).state.types = {}
         /\ custom(p).fairings.all = << Shield >>

\* build() has returned and nothing was called on the instance.
C27_Witness ==
    /\ Fresh /\ entry = "none" /\ result = [tag |-> "none"]
    /\ rocket = custom(DefaultProvider)
    /\ rocket.fairings.all = << Shield >>
    /\ rocket.figment # << >>


\* The regular fairings of the instance, as fairings::<MyFairing>() gives
\* them.
Mine(r) == fairings(r, "MyFairing")

\* C28: regular fairings accumulate. Attaching a MyFairing puts it behind
\* the MyFairings already enumerated, which stay as they are; attaching a
\* fairing of another type, a singleton that replaces one included, leaves
\* the enumeration alone; fairing::<MyFairing>() is the first of the
\* enumeration, so the one attached first; and an assignment through the
\* k-th reference of fairings_mut shows at place k of the enumeration,
\* with every other fairing, and the length of the list, as before.
C28_RegularFairingsAccumulate ==
    Attaching =>
      /\ \A f \in MineVals :
            ENABLED (/\ AttachStep(f)
                     /\ Mine(rocket') = IF f.type = "MyFairing"
                                        THEN Append(Mine(rocket), f)
                                        ELSE Mine(rocket)
                     /\ fairing(rocket', "MyFairing")
                           = IF Mine(rocket) # << >>
                             THEN Some(Mine(rocket)[1])
                             ELSE IF f.type = "MyFairing" THEN Some(f)
                                  ELSE None)
      /\ fairing(rocket, "MyFairing")
            = IF Mine(rocket) = << >> THEN None ELSE Some(Mine(rocket)[1])
      /\ \A k \in DOMAIN Mine(rocket) :
            ENABLED (/\ FairingsMutStep("MyFairing", k, "modified state")
                     /\ Len(Mine(rocket')) = Len(Mine(rocket))
                     /\ Mine(rocket')[k].held = "modified state"
                     /\ \A j \in DOMAIN Mine(rocket) \ {k} :
                           Mine(rocket')[j] = Mine(rocket)[j]
                     /\ Len(rocket'.fairings.all) = Len(rocket.fairings.all)
                     /\ \A i \in DOMAIN rocket.fairings.all :
                           rocket.fairings.all[i].type # "MyFairing"
                              => rocket'.fairings.all[i] = rocket.fairings.all[i])

\* Two regular fairings were attached around a singleton and the second was
\* changed through fairings_mut: both are enumerated, in attach order, the
\* second as changed, and fairing gives the first.
C28_Witness ==
    /\ pc = "build" /\ calls = 3
    /\ rocket.fairings.all
          = << Shield, MyFairing("some state"), MyFairing("modified state") >>
    /\ Mine(rocket) = << MyFairing("some state"), MyFairing("modified state") >>
    /\ fairing(rocket, "MyFairing") = Some(MyFairing("some state"))


\* What an ignite fairing can change on the instance it is given.
IgniteEffects(r) == << r.state, r.figment, r.fairings.failures >>

\* C29: attach runs no fairing. While the caller is building, before any
\* entry point was called, no ignite, liftoff or shutdown fairing has run
\* and no fairing has failed; attaching a fairing, whatever its ignite
\* callback does, returns with the managed state, the figment and the
\* failures as they were; and an ignite fairing has run only where ignite
\* was entered.
C29_AttachRunsNoFairing ==
    /\ (pc = "build" /\ rocket.phase = "Build") =>
          /\ hooks = [ignite |-> 0, shutdown |-> "idle", liftoff |-> "idle"]
          /\ rocket.fairings.failures = << >>
          /\ steps = << >> /\ entry = "none"
    /\ Building => \A f \in FairingVals \cup {Shield} :
          /\ ENABLED (/\ AttachStep(f)
                      /\ pc' = "build" /\ hooks' = hooks
                      /\ IgniteEffects(rocket') = IgniteEffects(rocket)
                      /\ rocket'.fairings.all = FairingsAdd(rocket.fairings.all, f))
          /\ ~ENABLED (/\ AttachStep(f)
                       /\ \/ IgniteEffects(rocket') # IgniteEffects(rocket)
                          \/ hooks' # hooks \/ pc' # "build")
    /\ hooks.ignite > 0 => (pc # "build" /\ entry # "none" /\ steps # << >>)

\* The one call on the instance attached a fairing that manages a T2 on
\* ignite; ignite returned, and the instance it returned has the value.
C29_Witness ==
    /\ pc = "ignited" /\ entry = "ignite" /\ rocket.phase = "Ignite"
    /\ calls = 1 /\ hooks.ignite > 0
    /\ \E i \in DOMAIN rocket.fairings.all :
          rocket.fairings.all[i].on_ignite = "manage"
    /\ state(rocket, "T2") = Some("v1")
    /\ state(rocket, "T1") = None


\* Vectors of one and of two routes, and of one and of two catchers.
RouteVectors ==
    LET uris == { Origin(<< "/" >>, None), Origin(<< "/", "bar" >>, None),
                  Origin(<< "/", "baz", "/" >>, None) }
    IN  Items({ RouteAt(u) : u \in uris })

CatcherVectors == Items(CatcherVals)

\* What mount leaves alone, and what register leaves alone.
MountFrame(r) == << r.catchers, r.state, r.fairings, r.figment >>

RegisterFrame(r) == << r.routes, r.state, r.fairings, r.figment >>

\* C30: a mount that returns puts one entry for each route of its vector,
\* in the order of the vector, behind the routes already mounted, which
\* stay as they are, and leaves catchers, managed state, fairings and
\* figment alone; register does the same with catchers. A route mounted
\* again under another base is one more entry: with one item to a call,
\* routes and catchers together count the calls made.
C30_MountAppendsOnly ==
    /\ (pc = "build" /\ rocket.phase = "Build") =>
          /\ Len(Routes(rocket)) + Len(Catchers(rocket)) = calls
          /\ rocket.state.types = {}
          /\ rocket.fairings.all = << Shield >>
          /\ rocket.figment = FigmentFrom(DefaultProvider)
    /\ (Mounting /\ calls < 2) => \A b \in ValidBases :
          /\ \A items \in RouteVectors :
                ENABLED (/\ MountStep(b, items)
                         /\ pc' = "build"
                         /\ rocket'.routes = rocket.routes \o
                               [i \in DOMAIN items |->
                                  RouteRebase(Origin(PathOf(b), None), items[i])]
                         /\ MountFrame(rocket') = MountFrame(rocket))
          /\ \A items \in CatcherVectors :
                ENABLED (/\ RegisterStep(b, items)
                         /\ pc' = "build"
                         /\ rocket'.catchers = rocket.catchers \o
                               [i \in DOMAIN items |->
                                  Rebase(Origin(PathOf(b), None), items[i])]
                         /\ RegisterFrame(rocket') = RegisterFrame(rocket))

\* The route "/bar" was mounted at "/foo" and then at "/": two entries, in
\* that order.
C30_Witness ==
    /\ pc = "build" /\ rocket.phase = "Build" /\ calls = 2
    /\ Len(Routes(rocket)) = 2 /\ rocket.catchers = << >>
    /\ rocket.routes[1]
          = RouteRebase(Origin(<< "/", "foo" >>, None),
                        RouteAt(Origin(<< "/", "bar" >>, None)))
    /\ rocket.routes[2]
          = RouteRebase(Origin(<< "/" >>, None),
                        RouteAt(Origin(<< "/", "bar" >>, None)))
    /\ rocket.routes[1].uri.path = << "/", "foo", "/", "bar" >>
    /\ rocket.routes[2].uri.path = << "/", "bar" >>


\* The types of the fairings attached in the lifecycle.
FairingTypes == { "Shield", "AdHoc" }

\* What the shared read operations return on an instance.
Reads(r) ==
    [ routes   |-> Routes(r),
      catchers |-> Catchers(r),
      state    |-> [t \in Types |-> state(r, t)],
      fairings |-> [F \in FairingTypes |-> fairings(r, F)],
      figment  |-> figment(r) ]

\* C31: the shared read operations answer alike in every phase. Where the
\* Build phase ends, ignite() making the Igniting value of the instance as
\* its ignite fairings left it, and where into_orbit and deorbit change
\* the phase, routes(), catchers(), state::<T>(), fairings::<F>() and
\* figment() return afterwards what they returned before; and no step
\* taken in the Ignite or Orbit phase changes what they return, so the
\* instance launch returns answers as the Build instance did at its end.
C31_ReadsAlikeInEveryPhase ==
    /\ [][ (Alive(rocket) /\ Alive(rocket') /\ rocket'.phase # rocket.phase)
              => Reads(rocket') = Reads(rocket) ]_vars
    /\ [][ (rocket.phase \in {"Ignite", "Orbit"} /\ Alive(rocket'))
              => Reads(rocket') = Reads(rocket) ]_vars
    /\ [] ( rocket.phase \in {"Ignite", "Orbit"} =>
              /\ Routes(rocket) = rocket.router.routes
              /\ Catchers(rocket) = rocket.router.catchers
              /\ \A F \in FairingTypes :
                    \A i \in DOMAIN fairings(rocket, F) :
                       fairings(rocket, F)[i].type = F )

\* launch returned, after orbit and shutdown, an instance that enumerates
\* the route mounted and the catcher registered in the Build phase, the
\* Shield attached by build and the figment build made.
C31_Witness ==
    /\ pc = "done" /\ entry \in LaunchEntries /\ result.tag = "Ok"
    /\ rocket.phase = "Ignite" /\ calls = 2
    /\ Len(Routes(rocket)) = 1 /\ Len(Catchers(rocket)) = 1
    /\ fairings(rocket, "Shield") = << Shield >>
    /\ fairings(rocket, "AdHoc") = << >>
    /\ figment(rocket) = FigmentFrom(DefaultProvider)
    /\ \A t \in Types : state(rocket, t) = None


\* The shutdown fairings are still running.
ShutdownRunning == hooks.shutdown = "running"

\* C32: while the shutdown fairings run, their task holds a clone of the
\* Arc: the strong count is above one, the head of the drain loop does not
\* break, and try_unwrap fails, so try_wait_shutdown cannot return the
\* instance; with the whole schedule slept, no connection task and no
\* liftoff task left, it returns the Arc, the instance still in orbit, and
\* _launch returns an error.
C32_HooksHoldTheArc ==
    /\ ShutdownRunning =>
          /\ clones.hooks = 1
          /\ StrongCount(clones) > 1
          /\ ~DrainBreak(clones) /\ ~TryUnwrap(clones)
          /\ Drained(clones) = [tag |-> "Err", value |-> "Arc"]
    /\ (pc = "drain" /\ ShutdownRunning) =>
          /\ ENABLED (DrainCheck /\ pc' = "sleeping")
          /\ ~ENABLED (DrainCheck /\ pc' = "unwrap")
    /\ (pc = "unwrap" /\ ShutdownRunning) =>
          /\ ENABLED (/\ Unwrap /\ pc' = "done"
                      /\ rocket' = rocket /\ rocket'.phase = "Orbit"
                      /\ result'.tag = "Err"
                      /\ result'.kind \in {"Shutdown", "Liftoff"})
          /\ ~ENABLED (Unwrap /\ (rocket'.phase = "Ignite" \/ result'.tag = "Ok"))
    /\ (pc = "unwrap" /\ ShutdownRunning /\ clones.conns = 0
          /\ clones.liftoff = 0 /\ hooks.liftoff = "done") =>
          /\ slept = Schedule
          /\ ENABLED (Unwrap /\ result' = Err("Shutdown", "Arc"))
    /\ (pc \in {"drain", "sleeping", "unwrap"}) => hooks.shutdown # "idle"

\* No connection was ever accepted and the shutdown fairings are still
\* running after the whole schedule: launch returned the Shutdown error,
\* the instance still in orbit.
C32_Witness ==
    /\ pc = "done" /\ result = Err("Shutdown", "Arc")
    /\ slept = Schedule /\ served = 0 /\ clones.conns = 0 /\ clones.liftoff = 0
    /\ ShutdownRunning /\ clones.hooks = 1
    /\ rocket.phase = "Orbit"


\* Endpoint lists given to into_orbit.
EndpointLists == { << "endpoint" >>, << "endpoint", "other" >> }

\* What the Ignite and the Orbit phase both hold.
Carried(r) ==
    << r.router, r.fairings, r.figment, r.config, r.state, r.shutdown >>

\* C33: into_orbit moves router, fairings, figment, config, managed state
\* and shutdown into the Orbiting value and adds the endpoints; deorbit
\* moves them back and drops the endpoints; so deorbit after into_orbit
\* gives the instance back as it was. Every step into orbit is into_orbit
\* and every step out of it deorbit, nothing carried changing in between,
\* and the instance launch returns after the shutdown has the handle
\* created by ignite(), notified, no other handle having been made.
C33_OrbitRoundTrip ==
    /\ [] ( rocket.phase = "Ignite" => \A e \in EndpointLists :
              /\ deorbit(into_orbit(rocket, e)) = rocket
              /\ into_orbit(rocket, e).phase = "Orbit"
              /\ into_orbit(rocket, e).endpoints = e
              /\ Carried(into_orbit(rocket, e)) = Carried(rocket) )
    /\ [] ( rocket.phase = "Orbit" =>
              /\ into_orbit(deorbit(rocket), rocket.endpoints) = rocket
              /\ deorbit(rocket).phase = "Ignite"
              /\ "endpoints" \notin DOMAIN deorbit(rocket)
              /\ Carried(deorbit(rocket)) = Carried(rocket) )
    /\ [][ (rocket.phase = "Ignite" /\ rocket'.phase = "Orbit")
              => (/\ rocket' = into_orbit(rocket, rocket'.endpoints)
                  /\ stages' = stages) ]_vars
    /\ [][ (rocket.phase = "Orbit" /\ rocket'.phase = "Orbit")
              => rocket' = rocket ]_vars
    /\ [][ (rocket.phase = "Orbit" /\ rocket'.phase = "Ignite")
              => (/\ rocket' = deorbit(rocket)
                  /\ shutdown(rocket') = shutdown(rocket)
                  /\ stages' = stages) ]_vars
    /\ [] ( (pc = "done" /\ entry \in LaunchEntries /\ result.tag = "Ok") =>
              /\ rocket.phase = "Ignite"
              /\ Len(stages) = 1 /\ shutdown(rocket) = 1
              /\ stages[shutdown(rocket)] )

\* launch returned the instance after a shutdown: its handle is the one
\* made by ignite(), already notified, and going into orbit and back would
\* give the same instance again.
C33_Witness ==
    /\ pc = "done" /\ entry = "launch_with" /\ result.tag = "Ok"
    /\ rocket.phase = "Ignite" /\ shutdown(rocket) = 1
    /\ stages = << TRUE >>
    /\ slept = << >> /\ served = 0
    /\ deorbit(into_orbit(rocket, << "endpoint" >>)) = rocket


\* liftoff() is running on the instance, in its task or awaited in place.
LiftoffRuns == hooks.liftoff = "running"

====
